---- MODULE Spec2Model ----
(***************************************************************************)
(* ExpenseBot intelligent agent: the dialogue manager of                   *)
(* app/intelligent_agent (memory.py, graph.py, processor.py).              *)
(*                                                                         *)
(* A message is handled by a worker thread in five steps, each one action: *)
(*   Receive   process_message_safely + the head of                        *)
(*             process_message_with_agent (session lookup, snapshot of     *)
(*             the pending expense)                                        *)
(*   Route     llm_router_node (the NLU oracle, a nondeterministic input)  *)
(*   <tool>    one of the six tool nodes                                   *)
(*   FinalResponse   final_response_node (the NLG oracle)                  *)
(*   Record    the tail of process_message_with_agent (add the turn)       *)
(* The memory sweep (cleanup_expired_contexts) is two steps: the scan and  *)
(* the deletions.                                                          *)
(*                                                                         *)
(* Spec     runs one message at a time, over all handlers.                 *)
(* SpecLog  runs the slot-filling dialogue of one user: every message goes *)
(*          to the single-expense handler.                                 *)
(* SpecMulti runs the multi-expense handler over lists of triples.         *)
(* SpecStore drives the session store alone: turns, pending expenses, the  *)
(*          clock and the sweep.                                           *)
(* SpecEntry calls both entry points for known and unknown numbers.        *)
(* SpecOracle runs messages whose oracle calls fail.                       *)
(* SpecAmount runs amounts of either sign through both expense handlers.   *)
(* SpecFail runs one text through every failure of the lookup, the router, *)
(*          the store and the final response.                              *)
(* SpecConc runs two worker threads and the sweeper interleaved, as the    *)
(*          thread pool of the webhook does; nothing in the code locks.    *)
(* SpecCat  runs expenses with and without a category through both        *)
(*          expense handlers.                                              *)
(* SpecQuery runs questions through the two reading handlers.              *)
(* SpecTtl  runs the slot-filling dialogue with the clock advancing        *)
(*          between messages.                                              *)
(* SpecHook runs handle_webhook of main.py: the agent, then the legacy     *)
(*          logic when the agent gave no answer.                           *)
(* SpecParse calls parse_amount on short texts.                            *)
(* SpecV3   runs the messages of one user through intelligent_agent_v3     *)
(*          (langgraph_agent.py, tools.py), which keeps its own context    *)
(*          cache.                                                         *)
(***************************************************************************)
EXTENDS Integers, Sequences, FiniteSets, TLC

(***************************************************************************)
(* Python values.  An Optional is a sequence of length 0 (None) or 1.      *)
(***************************************************************************)
None == <<>>

Some(x) == <<x>>

\* Texts are sequences of one-character strings.
T_empty == <<>>

T_i == <<"i">>

T_900 == <<"9", "0", "0">>

T_1500 == <<"1", "5", "0", "0">>

T_popcorn == <<"p", "o", "p", "c", "o", "r", "n">>

T_Popcorn == <<"P", "o", "p", "c", "o", "r", "n">>

T_Spent == <<" ", "S", "p", "e", "n", "t">>

T_spent == <<"s", "p", "e", "n", "t">>

T_bought == <<"b", "o", "u", "g", "h", "t">>

T_paid == <<"p", "a", "i", "d">>

T_thanks == <<"t", "h", "a", "n", "k", "s">>

T_intro == <<"I", " ", "a", "m", " ", "a", "l", "i">>

UpperChars == <<"A", "B", "C", "D", "E", "F", "G", "H", "I", "J", "K", "L", "M",
                "N", "O", "P", "Q", "R", "S", "T", "U", "V", "W", "X", "Y", "Z">>

LowerChars == <<"a", "b", "c", "d", "e", "f", "g", "h", "i", "j", "k", "l", "m",
                "n", "o", "p", "q", "r", "s", "t", "u", "v", "w", "x", "y", "z">>

Whitespace == {" "}

\* str.lower(), one character
LowerChar(c) ==
    IF \E k \in 1..Len(UpperChars) : UpperChars[k] = c
    THEN LowerChars[CHOOSE k \in 1..Len(UpperChars) : UpperChars[k] = c]
    ELSE c

\* str.upper(), one character
UpperChar(c) ==
    IF \E k \in 1..Len(LowerChars) : LowerChars[k] = c
    THEN UpperChars[CHOOSE k \in 1..Len(LowerChars) : LowerChars[k] = c]
    ELSE c

\* str.title() of a single word
Title(t) == [k \in 1..Len(t) |-> IF k = 1 THEN UpperChar(t[k]) ELSE LowerChar(t[k])]

\* the character class [a-zA-Z]
Letters == {LowerChars[k] : k \in 1..Len(LowerChars)} \cup {UpperChars[k] : k \in 1..Len(UpperChars)}

\* str.lower()
Lower(t) == [k \in 1..Len(t) |-> LowerChar(t[k])]

RECURSIVE LStrip(_)
LStrip(t) == IF t # <<>> /\ Head(t) \in Whitespace THEN LStrip(Tail(t)) ELSE t

RECURSIVE RStrip(_)
RStrip(t) ==
    IF t # <<>> /\ t[Len(t)] \in Whitespace THEN RStrip(SubSeq(t, 1, Len(t) - 1)) ELSE t

\* str.strip()
Strip(t) == RStrip(LStrip(t))

\* Python truthiness of an Optional number: None and 0 are falsy
TruthyAmount(a) == a # None /\ a[1] # 0

\* Python truthiness of an Optional text: None and "" are falsy
TruthyText(t) == t # None /\ t[1] # T_empty


C_food == <<"f", "o", "o", "d">>

C_Food == <<"F", "o", "o", "d">>

C_misc == <<"m", "i", "s", "c">>

(***************************************************************************)
(* Program constants and model bounds                                      *)
(***************************************************************************)
\* UserContext.conversation_history = deque(maxlen=10)
HistoryMaxLen == 10

\* ConversationMemory(max_history=10)
MaxHistoryDefault == 10

\* ConversationMemory(ttl_seconds=3600)
TtlSeconds == 3600

\* messages received in one behaviour of Spec
MaxMsgs == 2

\* messages received in one behaviour of SpecLog
MaxLogMsgs == 2

\* messages received in one behaviour of SpecMulti
MaxMultiMsgs == 2

\* turns recorded in one behaviour of SpecStore
MaxTurns == 15

\* messages received in one behaviour of SpecConc
MaxConcMsgs == 2

\* clock advances in one behaviour of SpecConc
MaxTicks == 1

\* one clock advance: it exceeds the TTL
Quantum == TtlSeconds + 1

\* messages received in one behaviour of SpecTtl
MaxTtlMsgs == 3

\* messages received in one behaviour of SpecHook
MaxHookMsgs == 2

\* messages received in one behaviour of SpecQuery
MaxQueryMsgs == 2

\* messages received in one behaviour of SpecCat
MaxCatMsgs == 1

\* the longest text handed to parse_amount
MaxAmountLen == 3

\* messages received in one behaviour of SpecV3
MaxV3Msgs == 2

\* clock advances in one behaviour of SpecV3
MaxV3Ticks == 3

(***************************************************************************)
(* The inputs                                                              *)
(***************************************************************************)
\* worker threads of the webhook's thread pool
Workers == {"w1", "w2"}

\* phone numbers; the users table maps the first two to a user id
Phones == {"p1", "p2", "p0"}

Accounts == [p1 |-> 1, p2 |-> 2]

\* db.query(User).filter(User.phone_number == phone_number).first()
UserOf(phone) == IF phone \in DOMAIN Accounts THEN Some(Accounts[phone]) ELSE None

ToolNames == {"log_expense_tool", "log_multiple_expenses_tool", "query_expenses_tool",
              "get_total_expenses_tool", "greeting_tool", "clarification_tool"}

(***************************************************************************)
(* graph.py helpers                                                        *)
(***************************************************************************)
StopWords == {<<"i">>, <<"a">>, <<"e">>, <<"o">>, <<"u">>, T_spent, T_bought, T_paid}

\* log_expense_tool, line 397: the short / unclear message test
IsUnclearMessage(msg) == Len(Strip(msg)) <= 3 \/ Lower(Strip(msg)) \in StopWords

\* the entries of category_map that the items of the model can hit
CategoryMap ==
    [x \in {T_popcorn, <<"a", "p", "p", "l", "e", "s">>, <<"c", "a", "r", "r", "o", "t", "s">>,
            <<"b", "a", "n", "a", "n", "a", "s">>} |-> C_food]

\* a lookup that does not lower-case the item
map_category_cased(item) ==
    IF ~TruthyText(item) THEN C_misc
    ELSE IF item[1] \in DOMAIN CategoryMap THEN CategoryMap[item[1]]
    ELSE C_misc

\* map_category(item): exact lookup of the lower-cased item, "misc" otherwise
map_category(item) ==
    IF ~TruthyText(item) THEN C_misc
    ELSE IF Lower(item[1]) \in DOMAIN CategoryMap THEN CategoryMap[Lower(item[1])]
    ELSE C_misc

(***************************************************************************)
(* memory.py                                                               *)
(***************************************************************************)
\* UserContext(phone_number=...): last_interaction defaults to time.time()
\* name stands for preferences too: set_user_name writes both, nothing else writes either
NewContext(t) ==
    [name |-> None, conversation_history |-> <<>>, last_interaction |-> t,
     pending_expense |-> None]

\* a get_user_context that always builds a new session
GetUserContext_fresh(mem, phone, t) == (phone :> NewContext(t)) @@ mem

\* ConversationMemory.get_user_context: get or create
GetUserContext(mem, phone, t) ==
    IF phone \in DOMAIN mem THEN mem ELSE (phone :> NewContext(t)) @@ mem

\* ConversationMemory.get_pending_expense, as a read of the store
GetPending(mem, phone) ==
    IF phone \in DOMAIN mem THEN mem[phone].pending_expense ELSE None

\* set_pending_expense writing one slot shared by every session
SetPending_shared(mem, phone, pe, t) ==
    [p \in DOMAIN GetUserContext(mem, phone, t) |->
        [GetUserContext(mem, phone, t)[p] EXCEPT !.pending_expense = pe]]

\* set_pending_expense keeping the earlier pending expenses in a list
SetPending_queue(mem, phone, pe, t) ==
    [GetUserContext(mem, phone, t) EXCEPT ![phone].pending_expense = @ \o pe]

\* ConversationMemory.set_pending_expense
SetPending(mem, phone, pe, t) ==
    [GetUserContext(mem, phone, t) EXCEPT ![phone].pending_expense = pe]

\* deque.append with maxlen: the oldest entry is dropped when full
DequeAppend(h, x) ==
    IF Len(h) >= HistoryMaxLen THEN Append(Tail(h), x) ELSE Append(h, x)

\* an add_turn that appends the turn twice
AddTurn_twice(mem, phone, turn, t) ==
    [GetUserContext(mem, phone, t) EXCEPT
        ![phone].conversation_history = DequeAppend(DequeAppend(@, turn), turn),
        ![phone].last_interaction = t]

\* ConversationMemory.add_conversation_turn / UserContext.add_turn
AddTurn(mem, phone, turn, t) ==
    [GetUserContext(mem, phone, t) EXCEPT
        ![phone].conversation_history = DequeAppend(@, turn),
        ![phone].last_interaction = t]

\* the literal prefixes of the patterns of _extract_name_from_message, in order
NamePatterns ==
    <<<<"i", " ", "a", "m", " ">>,
      <<"i", "'", "m", " ">>,
      <<"m", "y", " ", "n", "a", "m", "e", " ", "i", "s", " ">>,
      <<"t", "h", "i", "s", " ", "i", "s", " ">>,
      <<"c", "a", "l", "l", " ", "m", "e", " ">>>>

\* the longest run of letters at the start of t: ([a-zA-Z]+)
RECURSIVE LetterRun(_)
LetterRun(t) ==
    IF t # <<>> /\ Head(t) \in Letters THEN <<Head(t)>> \o LetterRun(Tail(t)) ELSE <<>>

\* the pattern matches at position k of t
MatchAt(t, pre, k) ==
    /\ k + Len(pre) - 1 <= Len(t)
    /\ SubSeq(t, k, k + Len(pre) - 1) = pre
    /\ LetterRun(SubSeq(t, k + Len(pre), Len(t))) # <<>>

\* re.search(pattern, t).group(1): the leftmost match, None without one
SearchName(t, pre) ==
    IF \E k \in 1..Len(t) : MatchAt(t, pre, k)
    THEN LET at == CHOOSE k \in 1..Len(t) :
                      MatchAt(t, pre, k) /\ \A j \in 1..(k - 1) : ~MatchAt(t, pre, j)
         IN Some(LetterRun(SubSeq(t, at + Len(pre), Len(t))))
    ELSE None

RECURSIVE FirstMatch(_, _)
FirstMatch(t, pats) ==
    IF pats = <<>> THEN None
    ELSE LET m == SearchName(t, Head(pats))
         IN IF m # None THEN m ELSE FirstMatch(t, Tail(pats))

\* ConversationMemory._extract_name_from_message
ExtractName(message) ==
    LET m == FirstMatch(Lower(message), NamePatterns)
    IN IF m = None THEN None ELSE Some(Title(m[1]))

\* ConversationMemory.add_conversation_turn, the name of an introduction
SetNameIfIntroduced(mem, phone, message, intent) ==
    IF intent = "introduction" /\ mem[phone].name = None
    THEN LET name == ExtractName(message)
         IN IF name # None THEN [mem EXCEPT ![phone].name = name] ELSE mem
    ELSE mem

\* cleanup_expired_contexts, the scan: the sessions older than the TTL
Expired(mem, t) == {p \in DOMAIN mem : t - mem[p].last_interaction > TtlSeconds}

\* a function without the keys in ks
Without(mem, ks) == [p \in (DOMAIN mem) \ ks |-> mem[p]]

(***************************************************************************)
(* crud.py                                                                 *)
(***************************************************************************)
\* Category.name.ilike(category_name), for names without wildcards
ILike(a, b) == Lower(a) = Lower(b)

HasCategory(cats, uid, name) == \E c \in cats : c.user_id = uid /\ ILike(c.name, name)

\* get_or_create_category: the table afterwards
CategoriesAfter(cats, uid, name) ==
    IF HasCategory(cats, uid, name) THEN cats
    ELSE cats \cup {[user_id |-> uid, name |-> name]}

\* get_or_create_category: the row returned
CategoryRow(cats, uid, name) ==
    CHOOSE c \in CategoriesAfter(cats, uid, name) : c.user_id = uid /\ ILike(c.name, name)

\* create_expense: the row added
ExpenseRow(uid, cat, amount, note) ==
    [user_id |-> uid, category |-> cat.name, amount |-> amount, note |-> note]

(***************************************************************************)
(* State                                                                   *)
(***************************************************************************)
VARIABLES
    config_enabled,   \* config.enabled (USE_INTELLIGENT_AGENT)
    max_history,      \* memory.max_history, the constructor's argument
    user_contexts,    \* memory.user_contexts: phone -> UserContext
    categories,       \* the categories table
    ledger,           \* the expenses table, in insertion order
    now,              \* time.time()
    ticks,            \* clock advances so far
    msgs,             \* messages received so far
    req,              \* per worker: the AgentState of the message it handles
    sweeper,          \* cleanup_expired_contexts: its position, expired_users, deletions done
    v3_cache,         \* agent v3: store_conversation_context._cache, phone -> context and timestamp
    v3,               \* agent v3: the AgentState of the message run_expense_agent handles
    hook,             \* handle_webhook: messages answered, and how the last one was
    call              \* a call of parse_amount: its argument and what it returned

vars == <<config_enabled, max_history, user_contexts, categories, ledger, now, ticks, msgs, req,
          sweeper, v3_cache, v3, hook, call>>

IdleReq ==
    [pc |-> "idle", phone |-> "", user_message |-> T_empty, user_id |-> None,
     pending_expense |-> None, tool_name |-> None, intent |-> "",
     extracted_data |-> [amount |-> None, item |-> None, category |-> None],
     amount |-> None, item |-> None, category |-> None, multiple_expenses |-> <<>>,
     tool_result |-> None, final_response |-> None, result |-> None,
     created |-> <<>>, pending_after |-> None]

\* store_conversation_context._cache before the first call
NoCache == [p \in {} |-> [context |-> None, timestamp |-> 0]]

\* run_expense_agent, lines 79-91: the state the graph starts from
IdleV3 ==
    [pc |-> "idle", phone_number |-> "", message |-> <<>>, intent |-> None,
     expenses |-> <<>>, pending_context |-> None, final_response |-> None,
     created |-> <<>>, context_before |-> None]

\* no call of parse_amount in progress
NoCall == [pc |-> "idle", arg |-> None, result |-> None]

\* handle_webhook: no message answered yet
IdleHook == [seen |-> 0, path |-> "", status |-> "", expenses |-> <<>>, created |-> <<>>]

Init ==
    /\ config_enabled \in BOOLEAN
    /\ max_history = MaxHistoryDefault
    /\ user_contexts = [p \in {} |-> NewContext(0)]
    /\ categories = {}
    /\ ledger = <<>>
    /\ now = 0
    /\ ticks = 0
    /\ msgs = 0
    /\ req = [w \in Workers |-> IdleReq]
    /\ sweeper = [pc |-> "idle", expired_users |-> {}, removed |-> 0]
    /\ v3_cache = NoCache
    /\ v3 = IdleV3
    /\ hook = IdleHook
    /\ call = NoCall

InFlight(w) == req[w].pc \notin {"idle", "done"}

\* an exception that leaves process_message_with_agent
Caught_reraised == Some("exception")

\* process_message_with_agent, lines 1110-1116 (and process_message_safely,
\* lines 51-55): an exception raised below is logged and None is returned
Caught == None

\* the value process_message_with_agent returns, and what get_pending reads then
Return(r, value, mem) ==
    [r EXCEPT !.pc = "done", !.result = value, !.pending_after = GetPending(mem, r.phone)]


(***************************************************************************)
(* processor.py, graph.py: the head of message processing                  *)
(***************************************************************************)
\* an entry point that does not look at the feature flag
Receive_unchecked(w, phone, msg) ==
    /\ ~InFlight(w)
    /\ msgs' = msgs + 1
    /\ LET r0 == [IdleReq EXCEPT !.phone = phone, !.user_message = msg]
       IN IF UserOf(phone) = None
          THEN /\ req' = [req EXCEPT ![w] = Return(r0, None, user_contexts)]
               /\ UNCHANGED user_contexts
          ELSE LET mem == GetUserContext(user_contexts, phone, now)
               IN /\ user_contexts' = mem
                  /\ req' = [req EXCEPT ![w] =
                                [r0 EXCEPT !.pc = "router",
                                           !.user_id = UserOf(phone),
                                           !.pending_expense = mem[phone].pending_expense]]
    /\ UNCHANGED <<call, v3_cache, v3, hook, config_enabled, max_history, categories, ledger, now, ticks, sweeper>>

\* process_message_safely (lines 20-41) and process_message_with_agent
\* (lines 1054-1087): the agent must be enabled and the user known; the
\* session is looked up (and created), the pending expense is snapshotted.
Receive(w, phone, msg) ==
    /\ ~InFlight(w)
    /\ msgs' = msgs + 1
    /\ LET r0 == [IdleReq EXCEPT !.phone = phone, !.user_message = msg]
       IN IF ~config_enabled \/ UserOf(phone) = None
          THEN /\ req' = [req EXCEPT ![w] = Return(r0, None, user_contexts)]
               /\ UNCHANGED user_contexts
          ELSE LET mem == GetUserContext(user_contexts, phone, now)
               IN /\ user_contexts' = mem
                  /\ req' = [req EXCEPT ![w] =
                                [r0 EXCEPT !.pc = "router",
                                           !.user_id = UserOf(phone),
                                           !.pending_expense = mem[phone].pending_expense]]
    /\ UNCHANGED <<call, v3_cache, v3, hook, config_enabled, max_history, categories, ledger, now, ticks, sweeper>>

\* process_message_with_agent called on its own (lines 1054-1066): the
\* session is looked up, and so created, before the user is looked up
ProcessMessageWithAgent(w, phone, msg) ==
    /\ ~InFlight(w)
    /\ msgs' = msgs + 1
    /\ LET r0 == [IdleReq EXCEPT !.phone = phone, !.user_message = msg]
       IN IF ~config_enabled
          THEN /\ req' = [req EXCEPT ![w] = Return(r0, None, user_contexts)]
               /\ UNCHANGED user_contexts
          ELSE LET mem == GetUserContext(user_contexts, phone, now)
               IN /\ user_contexts' = mem
                  /\ req' = [req EXCEPT ![w] =
                                IF UserOf(phone) = None
                                THEN Return(r0, None, mem)
                                ELSE [r0 EXCEPT !.pc = "router",
                                                !.user_id = UserOf(phone),
                                                !.pending_expense = mem[phone].pending_expense]]
    /\ UNCHANGED <<call, v3_cache, v3, hook, config_enabled, max_history, categories, ledger, now, ticks, sweeper>>

\* process_message_safely, lines 27-28 and 51-55: the user lookup raises
LookupRaises(w, phone, msg) ==
    /\ ~InFlight(w)
    /\ config_enabled
    /\ msgs' = msgs + 1
    /\ req' = [req EXCEPT ![w] =
                  Return([IdleReq EXCEPT !.phone = phone, !.user_message = msg],
                         Caught, user_contexts)]
    /\ UNCHANGED <<call, v3_cache, v3, hook, config_enabled, max_history, user_contexts, categories, ledger, now, ticks, sweeper>>

\* route_to_tool: the node that runs for the router's tool_name
ToolOf(r) == IF r.tool_name = None THEN "clarification_tool" ELSE r.tool_name[1]

\* llm_router_node with a parsed answer `out` of the oracle, then route_to_tool;
\* a tool name the graph has no edge for makes graph.invoke raise, which
\* process_message_with_agent turns into None.
Route(w, out) ==
    /\ req[w].pc = "router"
    /\ LET r == [req[w] EXCEPT !.tool_name = out.tool_name,
                               !.intent = out.intent,
                               !.extracted_data = [amount |-> out.amount, item |-> out.item,
                                                   category |-> out.category],
                               !.amount = out.amount,
                               !.item = out.item,
                               !.category = out.category,
                               !.multiple_expenses = out.multiple_expenses]
       IN req' = [req EXCEPT ![w] =
                     IF ToolOf(r) \in ToolNames THEN [r EXCEPT !.pc = "tool"]
                     ELSE Return(r, Caught, user_contexts)]
    /\ UNCHANGED <<call, v3_cache, v3, hook, config_enabled, max_history, user_contexts, categories, ledger, now, ticks, msgs, sweeper>>

\* a fallback that greets instead of asking
FallbackOutput_greeting ==
    [tool_name |-> Some("greeting_tool"), intent |-> "greeting",
     amount |-> None, item |-> None, category |-> None, multiple_expenses |-> <<>>]

\* llm_router_node, lines 312-327: the answer holds no JSON object
FallbackOutput ==
    [tool_name |-> Some("clarification_tool"), intent |-> "clarification",
     amount |-> None, item |-> None, category |-> None, multiple_expenses |-> <<>>]

RouteFallback(w) == Route(w, FallbackOutput)

\* llm_router_node: llm.invoke raises; process_message_with_agent returns None
RouteRaises(w) ==
    /\ req[w].pc = "router"
    /\ req' = [req EXCEPT ![w] = Return(req[w], Caught, user_contexts)]
    /\ UNCHANGED <<call, v3_cache, v3, hook, config_enabled, max_history, user_contexts, categories, ledger, now, ticks, msgs, sweeper>>

(***************************************************************************)
(* graph.py: the tool nodes                                                *)
(***************************************************************************)
\* substring test: `word in text`
Contains(text, word) ==
    \E k \in 1..(Len(text) - Len(word) + 1) : SubSeq(text, k, k + Len(word) - 1) = word

\* `read` is the SELECT a handler ran on the expenses table, if it ran one:
\* the user and the time window of its WHERE clause
ToolResult(status, response) ==
    [status |-> status, response |-> response, error |-> "", missing |-> <<>>,
     pending_expense |-> None, logged_expenses |-> <<>>, failed_expenses |-> <<>>,
     read |-> None]

\* the WHERE clause of a SELECT on the expenses table
Select(uid, period) == Some([user_id |-> uid, period |-> period])

T_today == <<"t", "o", "d", "a", "y">>

T_yesterday == <<"y", "e", "s", "t", "e", "r", "d", "a", "y">>

T_week == <<"w", "e", "e", "k">>

T_month == <<"m", "o", "n", "t", "h">>

StoreFaults == {"none", "category", "expense"}

\* log_expense_tool, lines 373-382: the slots after the pending ones are used
MergedAmount(r) ==
    IF r.pending_expense # None /\ ~TruthyAmount(r.amount)
    THEN r.pending_expense[1].amount ELSE r.amount

MergedItem(r) ==
    IF r.pending_expense # None /\ ~TruthyText(r.item)
    THEN r.pending_expense[1].item ELSE r.item

\* a test that lets short and stop-word messages through
MissingInfo_lenient(r) ==
    (IF ~TruthyAmount(MergedAmount(r)) THEN <<"amount">> ELSE <<>>)
    \o (IF ~TruthyText(MergedItem(r)) THEN <<"item">> ELSE <<>>)

\* log_expense_tool, lines 389-400
MissingInfo(r) ==
    IF IsUnclearMessage(r.user_message) THEN <<"amount", "item">>
    ELSE (IF ~TruthyAmount(MergedAmount(r)) THEN <<"amount">> ELSE <<>>)
         \o (IF ~TruthyText(MergedItem(r)) THEN <<"item">> ELSE <<>>)

\* a handler that stores the slots whatever they hold
PendingData_always(r) ==
    Some([amount |-> MergedAmount(r), item |-> MergedItem(r), category |-> r.category])

\* log_expense_tool, lines 411-421: what is stored when the expense is incomplete
PendingData(r) ==
    IF TruthyAmount(MergedAmount(r)) \/ TruthyText(MergedItem(r))
    THEN Some([amount |-> MergedAmount(r), item |-> MergedItem(r), category |-> r.category])
    ELSE None

\* log_expense_tool, lines 433-435 and 442: the category name handed to the store
CommitCategory(r) ==
    LET c == IF ~TruthyText(r.category) /\ TruthyText(MergedItem(r))
             THEN Some(map_category(MergedItem(r))) ELSE r.category
    IN IF TruthyText(c) THEN c[1] ELSE C_misc

\* log_expense_tool, lines 397-399: an unclear message clears the pending expense
ClearIfUnclear(mem, r) ==
    IF IsUnclearMessage(r.user_message) THEN SetPending(mem, r.phone, None, now) ELSE mem

\* log_expense_tool; `fault` is the store call that raises, if any
LogExpenseTool(w, fault) ==
    /\ req[w].pc = "tool"
    /\ ToolOf(req[w]) = "log_expense_tool"
    /\ LET r == req[w]
           missing == MissingInfo(r)
           uid == r.user_id[1]
           name == CommitCategory(r)
           row == ExpenseRow(uid, CategoryRow(categories, uid, name),
                             MergedAmount(r)[1], MergedItem(r)[1])
           filled == [r EXCEPT !.amount = MergedAmount(r), !.item = MergedItem(r), !.pc = "final"]
       IN IF r.user_id = None
          THEN /\ fault = "none"
               /\ req' = [req EXCEPT ![w] = [r EXCEPT !.pc = "final",
                                                !.tool_result = Some(ToolResult("error", "no_account"))]]
               /\ UNCHANGED <<user_contexts, categories, ledger>>
          ELSE IF missing # <<>>
          THEN /\ fault = "none"
               /\ user_contexts' = SetPending(ClearIfUnclear(user_contexts, r), r.phone,
                                               PendingData(r), now)
               /\ req' = [req EXCEPT ![w] =
                             [filled EXCEPT !.tool_result =
                                 Some([ToolResult("incomplete",
                                                  IF Len(missing) = 2 THEN "ask_both"
                                                  ELSE IF missing[1] = "amount" THEN "ask_amount"
                                                  ELSE "ask_item")
                                       EXCEPT !.missing = missing,
                                              !.pending_expense = PendingData(r)])]]
               /\ UNCHANGED <<categories, ledger>>
          ELSE IF fault = "none"
          THEN /\ categories' = CategoriesAfter(categories, uid, name)
               /\ ledger' = Append(ledger, row)
               /\ user_contexts' = SetPending(user_contexts, r.phone, None, now)
               /\ req' = [req EXCEPT ![w] =
                             [filled EXCEPT !.category = Some(name),
                                            !.created = Append(@, row),
                                            !.tool_result = Some(ToolResult("success", "logged"))]]
          ELSE /\ categories' = IF fault = "expense"
                                THEN CategoriesAfter(categories, uid, name) ELSE categories
               /\ req' = [req EXCEPT ![w] =
                             [filled EXCEPT !.tool_result =
                                 Some([ToolResult("error", "failed") EXCEPT !.error = fault])]]
               /\ UNCHANGED <<user_contexts, ledger>>
    /\ UNCHANGED <<call, v3_cache, v3, hook, config_enabled, max_history, now, ticks, msgs, sweeper>>


\* the triples of a multi-expense message
Triple(amount, item, category) == [amount |-> amount, item |-> item, category |-> category]

\* a validation that also wants the category given
ValidTriple_strict(e) ==
    TruthyAmount(e.amount) /\ TruthyText(e.item) /\ TruthyText(e.category)

\* log_multiple_expenses_tool, line 753: `if not amount or not item` fails the triple
ValidTriple(e) == TruthyAmount(e.amount) /\ TruthyText(e.item)

\* a loop that a store failure ends: the triples after it are not looked at
RECURSIVE MultiLoop_abort(_, _, _, _, _, _)
MultiLoop_abort(list, k, uid, at, fault, acc) ==
    IF k > Len(list) THEN acc
    ELSE LET e == list[k]
             category == IF ~TruthyText(e.category) /\ TruthyText(e.item)
                         THEN Some(map_category(e.item)) ELSE e.category
             name == IF TruthyText(category) THEN category[1] ELSE C_misc
             cats1 == CategoriesAfter(acc.categories, uid, name)
             row == ExpenseRow(uid, CategoryRow(acc.categories, uid, name), e.amount[1], e.item[1])
         IN IF ~ValidTriple(e)
            THEN MultiLoop_abort(list, k + 1, uid, at, fault, [acc EXCEPT !.failed = Append(@, e)])
            ELSE IF at = k
            THEN [acc EXCEPT !.failed = Append(@, e)]
            ELSE MultiLoop_abort(list, k + 1, uid, at, fault,
                                 [acc EXCEPT !.categories = cats1,
                                             !.ledger = Append(@, row),
                                             !.created = Append(@, row),
                                             !.logged = Append(@, [amount |-> e.amount, item |-> e.item,
                                                                   category |-> Some(name)])])

\* log_multiple_expenses_tool, lines 740-776: the loop over the triples from
\* index k on; `at` is the index whose store call `fault` raises (0: none).
\* acc = [categories, ledger, logged, failed, created]
RECURSIVE MultiLoop(_, _, _, _, _, _)
MultiLoop(list, k, uid, at, fault, acc) ==
    IF k > Len(list) THEN acc
    ELSE LET e == list[k]
             category == IF ~TruthyText(e.category) /\ TruthyText(e.item)
                         THEN Some(map_category(e.item)) ELSE e.category
             name == IF TruthyText(category) THEN category[1] ELSE C_misc
             cats1 == CategoriesAfter(acc.categories, uid, name)
             row == ExpenseRow(uid, CategoryRow(acc.categories, uid, name), e.amount[1], e.item[1])
             next ==
                 IF ~ValidTriple(e)
                 THEN [acc EXCEPT !.failed = Append(@, e)]
                 ELSE IF at = k /\ fault = "category"
                 THEN [acc EXCEPT !.failed = Append(@, e)]
                 ELSE IF at = k /\ fault = "expense"
                 THEN [acc EXCEPT !.categories = cats1, !.failed = Append(@, e)]
                 ELSE [acc EXCEPT !.categories = cats1,
                                  !.ledger = Append(@, row),
                                  !.created = Append(@, row),
                                  !.logged = Append(@, [amount |-> e.amount, item |-> e.item,
                                                        category |-> Some(name)])]
         IN MultiLoop(list, k + 1, uid, at, fault, next)

\* a handler that keeps the first failed triple as the pending expense
MultiMemory_pending(mem, r, failed) ==
    IF failed # <<>> THEN SetPending(mem, r.phone, Some(failed[1]), now) ELSE mem

\* log_multiple_expenses_tool makes no call to memory: the store after it
MultiMemory(mem, r, failed) == mem

\* log_multiple_expenses_tool
LogMultipleExpensesTool(w, at, fault) ==
    /\ req[w].pc = "tool"
    /\ ToolOf(req[w]) = "log_multiple_expenses_tool"
    /\ LET r == req[w]
           list == r.multiple_expenses
           out == MultiLoop(list, 1, r.user_id[1], at, fault,
                            [categories |-> categories, ledger |-> ledger,
                             logged |-> <<>>, failed |-> <<>>, created |-> r.created])
       IN IF r.user_id = None \/ list = <<>>
          THEN /\ at = 0 /\ fault = "none"
               /\ req' = [req EXCEPT ![w] =
                             [r EXCEPT !.pc = "final",
                                       !.tool_result = Some(ToolResult("error",
                                           IF r.user_id = None THEN "no_account" ELSE "no_expenses"))]]
               /\ UNCHANGED <<user_contexts, categories, ledger>>
          ELSE /\ at \in 0..Len(list)
               /\ (at = 0) = (fault = "none")
               /\ categories' = out.categories
               /\ ledger' = out.ledger
               /\ user_contexts' = MultiMemory(user_contexts, r, out.failed)
               /\ req' = [req EXCEPT ![w] =
                             [r EXCEPT !.pc = "final",
                                       !.created = out.created,
                                       !.tool_result =
                                           Some([ToolResult("success",
                                                    IF out.logged # <<>> /\ out.failed = <<>> THEN "logged_all"
                                                    ELSE IF out.logged # <<>> THEN "logged_some"
                                                    ELSE "logged_none")
                                                 EXCEPT !.logged_expenses = out.logged,
                                                        !.failed_expenses = out.failed])]]
    /\ UNCHANGED <<call, v3_cache, v3, hook, config_enabled, max_history, now, ticks, msgs, sweeper>>

\* query_expenses_tool: reads the ledger of the user, over all time whatever
\* the message says (lines 549-578 pass "all"); `ok` is FALSE when the store
\* raises.  state has no "extracted_data" key, so the category branch is dead.
QueryExpensesTool(w, ok) ==
    /\ req[w].pc = "tool"
    /\ ToolOf(req[w]) = "query_expenses_tool"
    /\ LET r == req[w]
           mine == SelectSeq(ledger, LAMBDA e : Some(e.user_id) = r.user_id)
           res == IF r.user_id = None THEN ToolResult("error", "no_account")
                  ELSE IF ~ok THEN ToolResult("error", "query_failed")
                  ELSE IF r.intent = "provide_context" THEN ToolResult("success", "context_ack")
                  ELSE [ToolResult("success", IF mine # <<>> THEN "analysis" ELSE "no_expenses")
                        EXCEPT !.read = Select(r.user_id[1], "all")]
       IN /\ (r.user_id = None \/ r.intent = "provide_context") => ok
          /\ req' = [req EXCEPT ![w] = [r EXCEPT !.pc = "final", !.tool_result = Some(res)]]
    /\ UNCHANGED <<call, v3_cache, v3, hook, config_enabled, max_history, user_contexts, categories, ledger, now, ticks, msgs, sweeper>>

\* get_total_expenses_tool, lines 622-638: the time filter chosen from the message
TotalPeriod(msg) ==
    IF Contains(Lower(msg), T_yesterday) THEN "yesterday"
    ELSE IF Contains(Lower(msg), T_week) THEN "week"
    ELSE IF Contains(Lower(msg), T_month) THEN "month"
    ELSE "today"

\* get_total_expenses_tool: sums the ledger of the user; `ok` as above
GetTotalExpensesTool(w, ok) ==
    /\ req[w].pc = "tool"
    /\ ToolOf(req[w]) = "get_total_expenses_tool"
    /\ LET r == req[w]
           mine == SelectSeq(ledger, LAMBDA e : Some(e.user_id) = r.user_id)
           res == IF r.user_id = None THEN ToolResult("error", "no_account")
                  ELSE IF ~ok THEN ToolResult("error", "total_failed")
                  ELSE [ToolResult("success", IF mine # <<>> THEN "total" ELSE "no_expenses")
                        EXCEPT !.read = Select(r.user_id[1], TotalPeriod(r.user_message))]
       IN /\ r.user_id = None => ok
          /\ req' = [req EXCEPT ![w] = [r EXCEPT !.pc = "final", !.tool_result = Some(res)]]
    /\ UNCHANGED <<call, v3_cache, v3, hook, config_enabled, max_history, user_contexts, categories, ledger, now, ticks, msgs, sweeper>>

\* greeting_tool, line 677: the acknowledgment words
AckWords ==
    {T_thanks, <<"t", "h", "a", "n", "k", " ", "y", "o", "u">>, <<"o", "k", "a", "y">>,
     <<"o", "k">>, <<"g", "o", "o", "d">>, <<"g", "r", "e", "a", "t">>,
     <<"a", "l", "s", "o">>, <<"n", "o">>, <<"n", "o", "t">>}

\* greeting_tool
GreetingTool(w) ==
    /\ req[w].pc = "tool"
    /\ ToolOf(req[w]) = "greeting_tool"
    /\ LET r == req[w]
           ack == r.intent = "acknowledgment"
                  \/ \E word \in AckWords : Contains(Lower(r.user_message), word)
       IN req' = [req EXCEPT ![w] =
                     [r EXCEPT !.pc = "final",
                               !.tool_result = Some(ToolResult("success",
                                                   IF ack THEN "welcome" ELSE "hello"))]]
    /\ UNCHANGED <<call, v3_cache, v3, hook, config_enabled, max_history, user_contexts, categories, ledger, now, ticks, msgs, sweeper>>

\* clarification_tool
ClarificationTool(w) ==
    /\ req[w].pc = "tool"
    /\ ToolOf(req[w]) = "clarification_tool"
    /\ LET r == req[w]
           text == Strip(Lower(r.user_message))
       IN req' = [req EXCEPT ![w] =
                     [r EXCEPT !.pc = "final",
                               !.tool_result = Some(ToolResult("clarification_needed",
                                                   IF Len(text) <= 2 THEN "be_specific"
                                                   ELSE IF text \in StopWords THEN "need_more"
                                                   ELSE "not_sure"))]]
    /\ UNCHANGED <<call, v3_cache, v3, hook, config_enabled, max_history, user_contexts, categories, ledger, now, ticks, msgs, sweeper>>

(***************************************************************************)
(* graph.py: the final response and the tail of message processing         *)
(***************************************************************************)
LlmOutcomes == {"text", "empty", "raise"}

\* final_response_node, lines 819, 827, 832: the answers given without the LLM
IsCanned(r) ==
    \/ r.intent = "log_expense" /\ r.tool_result[1].status \in {"success", "incomplete"}
    \/ r.intent = "acknowledgment"

\* final_response_node clearing whatever the status of the tool result
ClearsPending_any(r) == r.intent = "log_expense"

\* final_response_node, line 819: a logged expense clears the pending context
ClearsPending(r) == r.intent = "log_expense" /\ r.tool_result[1].status = "success"

\* final_response_node; `llm` is what the NLG call does when it is made
FinalResponse(w, llm) ==
    /\ req[w].pc = "final"
    /\ LET r == req[w]
           res == r.tool_result[1]
       IN IF ClearsPending(r)
          THEN /\ llm = "text"
               /\ user_contexts' = SetPending(user_contexts, r.phone, None, now)
               /\ req' = [req EXCEPT ![w] = [r EXCEPT !.pc = "record",
                                                !.final_response = Some(res.response)]]
          ELSE IF IsCanned(r)
          THEN /\ llm = "text"
               /\ req' = [req EXCEPT ![w] =
                             [r EXCEPT !.pc = "record",
                                       !.final_response =
                                           Some(IF r.intent = "log_expense" THEN res.response
                                                ELSE "welcome")]]
               /\ UNCHANGED user_contexts
          ELSE /\ req' = [req EXCEPT ![w] =
                             IF llm = "raise" THEN Return(r, Caught, user_contexts)
                             ELSE [r EXCEPT !.pc = "record",
                                            !.final_response =
                                                Some(IF llm = "text" THEN "llm_text" ELSE "")]]
               /\ UNCHANGED user_contexts
    /\ UNCHANGED <<call, v3_cache, v3, hook, config_enabled, max_history, categories, ledger, now, ticks, msgs, sweeper>>

\* the ConversationTurn that add_turn builds (its timestamp is the
\* last_interaction set with it)
Turn(r) ==
    [user_message |-> r.user_message, bot_response |-> r.final_response[1], intent |-> r.intent]

\* process_message_with_agent, lines 1092-1110
Record(w) ==
    /\ req[w].pc = "record"
    /\ LET r == req[w]
           mem == SetNameIfIntroduced(AddTurn(user_contexts, r.phone, Turn(r), now),
                                      r.phone, r.user_message, r.intent)
       IN IF r.final_response[1] # ""
          THEN /\ user_contexts' = mem
               /\ req' = [req EXCEPT ![w] = Return(r, r.final_response, mem)]
          ELSE /\ req' = [req EXCEPT ![w] = Return(r, None, user_contexts)]
               /\ UNCHANGED user_contexts
    /\ UNCHANGED <<call, v3_cache, v3, hook, config_enabled, max_history, categories, ledger, now, ticks, msgs, sweeper>>

(***************************************************************************)
(* main.py: handle_webhook after process_message_safely has returned, for  *)
(* a number that has an account                                            *)
(***************************************************************************)
\* handle_webhook, lines 48-51: the agent's answer is sent and returned
WebhookAgentReply(w) ==
    /\ req[w].pc = "done"
    /\ hook.seen < msgs
    /\ req[w].result # None
    /\ hook' = [IdleHook EXCEPT !.seen = msgs, !.path = "agent", !.status = "ok"]
    /\ UNCHANGED <<config_enabled, max_history, user_contexts, categories, ledger, now, ticks,
                   msgs, req, sweeper, v3_cache, v3, call>>

\* an expense of llm_service.process_user_message
LegacyExpense(amount, category, note) == [amount |-> amount, category |-> category, note |-> note]

\* handle_webhook, line 72: the expense needs a clarification
LegacyMissing(e) ==
    e.amount = None \/ e.category \in {None, Some(T_empty), Some(<<"u", "n", "c", "l", "e", "a", "r">>),
                                       Some(<<"u", "n", "k", "n", "o", "w", "n">>)}

\* handle_webhook, lines 86-97: the loop from index k on, inside one try; the
\* store call `fault` of index `at` raises (0: none) and ends the loop;
\* crud.get_or_create_category and crud.create_expense commit on their own
RECURSIVE LegacyLoop(_, _, _, _, _, _)
LegacyLoop(list, k, uid, at, fault, acc) ==
    IF k > Len(list) THEN acc
    ELSE LET e == list[k]
             cats1 == CategoriesAfter(acc.categories, uid, e.category[1])
             row == ExpenseRow(uid, CategoryRow(acc.categories, uid, e.category[1]),
                               e.amount[1], e.note)
         IN IF at = k
            THEN [acc EXCEPT !.categories = IF fault = "expense" THEN cats1 ELSE @,
                             !.raised = TRUE]
            ELSE LegacyLoop(list, k + 1, uid, at, fault,
                            [acc EXCEPT !.categories = cats1, !.created = Append(@, row)])

\* handle_webhook, lines 59-149: the legacy logic on the answer `out` of
\* llm_service.process_user_message
LegacyLogic(w, out, at, fault) ==
    /\ req[w].pc = "done"
    /\ hook.seen < msgs
    /\ req[w].result = None
    /\ LET uid == UserOf(req[w].phone)[1]
           list == out.expenses
           done == LegacyLoop(list, 1, uid, at, fault,
                              [categories |-> categories, created |-> <<>>, raised |-> FALSE])
           h == [IdleHook EXCEPT !.seen = msgs, !.path = "legacy", !.expenses = list]
       IN IF out.intent = "expense_logging" /\ list # <<>>
          THEN IF \E k \in 1..Len(list) : LegacyMissing(list[k])
               THEN /\ at = 0 /\ fault = "none"
                    /\ hook' = [h EXCEPT !.status = "clarification_needed"]
                    /\ UNCHANGED <<categories, ledger>>
               ELSE /\ at \in 0..Len(list)
                    /\ (at = 0) = (fault = "none")
                    /\ categories' = done.categories
                    /\ ledger' = ledger \o done.created
                    /\ hook' = [h EXCEPT !.status = IF done.raised THEN "error" ELSE "ok",
                                         !.created = done.created]
          ELSE /\ at = 0 /\ fault = "none"
               /\ hook' = [h EXCEPT !.status = IF out.intent \in {"query", "breakdown"}
                                                THEN "ok" ELSE "unclear",
                                    !.expenses = <<>>]
               /\ UNCHANGED <<categories, ledger>>
    /\ UNCHANGED <<config_enabled, max_history, user_contexts, now, ticks, msgs, req, sweeper,
                   v3_cache, v3, call>>

(***************************************************************************)
(* The clock and the memory sweep                                          *)
(***************************************************************************)
Tick ==
    /\ ticks < MaxTicks
    /\ ticks' = ticks + 1
    /\ now' = now + Quantum
    /\ UNCHANGED <<call, v3_cache, v3, hook, config_enabled, max_history, user_contexts, categories, ledger, msgs, req, sweeper>>

\* cleanup_expired_contexts, line 139: the function has no return statement,
\* whatever the number of sessions it deleted
SweepReturn(deleted) == None

\* cleanup_expired_contexts, lines 141-146: collect the expired sessions
SweepScan ==
    /\ sweeper.pc = "idle"
    /\ Expired(user_contexts, now) # {}
    /\ sweeper' = [pc |-> "deleting", expired_users |-> Expired(user_contexts, now),
                   removed |-> 0]
    /\ UNCHANGED <<call, v3_cache, v3, hook, config_enabled, max_history, user_contexts, categories, ledger, now, ticks, msgs, req>>

\* cleanup_expired_contexts, lines 148-150: delete one of them
SweepDelete(phone) ==
    /\ sweeper.pc = "deleting"
    /\ phone \in sweeper.expired_users
    /\ phone \in DOMAIN user_contexts
    /\ user_contexts' = Without(user_contexts, {phone})
    /\ sweeper' = IF sweeper.expired_users = {phone}
                  THEN [pc |-> "idle", expired_users |-> {}, removed |-> 0]
                  ELSE [sweeper EXCEPT !.expired_users = @ \ {phone}, !.removed = @ + 1]
    /\ UNCHANGED <<call, v3_cache, v3, hook, config_enabled, max_history, categories, ledger, now, ticks, msgs, req>>


(***************************************************************************)
(* intelligent_agent_v3: langgraph_agent.py and tools.py.  A v3 message is *)
(* a sequence of words.  The extraction oracle reads the text it is handed *)
(* and nothing else: it finds the amount and the item that text holds.     *)
(***************************************************************************)
\* timedelta(minutes=5), in seconds
ContextTtl == 300

\* one advance of the clock between two v3 messages, in seconds
V3Quantum == 120

\* the words that are numbers, and their value
AmountWords == ("800" :> 800) @@ ("500" :> 500)

\* f"{amount}"
AmountText(n) == CHOOSE word \in DOMAIN AmountWords : AmountWords[word] = n

\* the words the oracle knows as items, and the category it gives them
ItemWords == ("popcorn" :> C_food)

W_spent800 == <<"spent", "800">>

W_popcorn == <<"popcorn">>

W_popcorn500 == <<"popcorn", "500">>

W_hello == <<"hello">>

\* get_conversation_context: the stored context if it is younger than 5 minutes
get_conversation_context(cache, phone, t) ==
    IF phone \in DOMAIN cache /\ t - cache[phone].timestamp < ContextTtl
    THEN cache[phone].context ELSE None

\* store_conversation_context: an empty context deletes the entry
store_conversation_context(cache, phone, context, t) ==
    IF context = None THEN [p \in (DOMAIN cache) \ {phone} |-> cache[p]]
    ELSE (phone :> [context |-> context, timestamp |-> t]) @@ cache

\* run_expense_agent, line 90: "pending_context": None, whatever is stored
InitialContext(cache, phone, t) == None

\* ExtractExpenseTool._enhance_message_with_context
Enhance(message, ctx) ==
    IF ctx = None THEN message
    ELSE IF ctx[1].type = "missing_amount" /\ ctx[1].item # None
    THEN message \o <<"for">> \o ctx[1].item[1]
    ELSE IF ctx[1].type = "missing_item" /\ TruthyAmount(ctx[1].amount)
    THEN <<AmountText(ctx[1].amount[1]), "PKR", "for">> \o message
    ELSE message

\* the extraction oracle on a text: complete_expenses and incomplete_expense
Extraction(text) ==
    LET nums == {k \in 1..Len(text) : text[k] \in DOMAIN AmountWords}
        its == {k \in 1..Len(text) : text[k] \in DOMAIN ItemWords}
        first(S) == CHOOSE k \in S : \A j \in S : k <= j
    IN IF nums # {} /\ its # {}
       THEN [complete_expenses |->
                <<[amount |-> AmountWords[text[first(nums)]],
                   category |-> ItemWords[text[first(its)]],
                   note |-> <<text[first(its)]>>]>>,
             incomplete_expense |-> None]
       ELSE IF nums # {}
       THEN [complete_expenses |-> <<>>,
             incomplete_expense |->
                Some([type |-> "missing_item",
                      amount |-> Some(AmountWords[text[first(nums)]]), item |-> None])]
       ELSE IF its # {}
       THEN [complete_expenses |-> <<>>,
             incomplete_expense |->
                Some([type |-> "missing_amount", amount |-> None,
                      item |-> Some(<<text[first(its)]>>)])]
       ELSE [complete_expenses |-> <<>>, incomplete_expense |-> None]

\* run_expense_agent, lines 78-95, for a number with an account
RunExpenseAgent(phone, message) ==
    /\ v3.pc \in {"idle", "done"}
    /\ msgs' = msgs + 1
    /\ v3' = [IdleV3 EXCEPT !.pc = "detect_intent",
                            !.phone_number = phone,
                            !.message = message,
                            !.pending_context = InitialContext(v3_cache, phone, now),
                            !.context_before = get_conversation_context(v3_cache, phone, now)]
    /\ UNCHANGED <<config_enabled, max_history, user_contexts, categories, ledger, now, ticks,
                   req, sweeper, v3_cache, hook, call>>

\* IntentTool and router: only log_expense reaches the expense nodes; the
\* other nodes answer without touching the cache or the expenses table
IntentTool(intent) ==
    /\ v3.pc = "detect_intent"
    /\ v3' = IF intent = "log_expense"
             THEN [v3 EXCEPT !.pc = "extract_expense", !.intent = Some(intent)]
             ELSE [v3 EXCEPT !.pc = "respond", !.intent = Some(intent),
                             !.final_response = Some("other")]
    /\ UNCHANGED <<config_enabled, max_history, user_contexts, categories, ledger, now, ticks,
                   msgs, req, sweeper, v3_cache, hook, call>>

\* ExtractExpenseTool.invoke; `ok` is FALSE when the oracle's answer does not parse
ExtractExpenseTool(ok) ==
    /\ v3.pc = "extract_expense"
    /\ LET out == Extraction(Enhance(v3.message, v3.pending_context))
       IN v3' = IF ok
                THEN [v3 EXCEPT !.pc = "create_expense",
                                !.expenses = out.complete_expenses,
                                !.pending_context = out.incomplete_expense]
                ELSE [v3 EXCEPT !.pc = "create_expense", !.expenses = <<>>,
                                !.pending_context = None]
    /\ UNCHANGED <<config_enabled, max_history, user_contexts, categories, ledger, now, ticks,
                   msgs, req, sweeper, v3_cache, hook, call>>

\* CreateExpenseTool.invoke, lines 258-271: the loop from index k on; the
\* store call of index `at` raises (0: none), which skips that expense only
RECURSIVE InsertLoop(_, _, _, _, _)
InsertLoop(list, k, uid, at, acc) ==
    IF k > Len(list) THEN acc
    ELSE LET e == list[k]
             row == ExpenseRow(uid, CategoryRow(acc.categories, uid, e.category), e.amount, e.note)
             next == IF e.amount = 0 \/ at = k THEN acc
                     ELSE [categories |-> CategoriesAfter(acc.categories, uid, e.category),
                           inserted |-> Append(acc.inserted, row)]
         IN InsertLoop(list, k + 1, uid, at, next)

\* CreateExpenseTool.invoke, lines 239-292
CreateExpenseTool(at) ==
    /\ v3.pc = "create_expense"
    /\ at \in 0..Len(v3.expenses)
    /\ LET phone == v3.phone_number
           out == InsertLoop(v3.expenses, 1, UserOf(phone)[1], at,
                             [categories |-> categories, inserted |-> <<>>])
       IN IF out.inserted # <<>>
          THEN /\ categories' = out.categories
               /\ ledger' = ledger \o out.inserted
               /\ v3_cache' = store_conversation_context(v3_cache, phone, None, now)
               /\ v3' = [v3 EXCEPT !.pc = "respond", !.created = out.inserted,
                                   !.pending_context = None,
                                   !.final_response = Some("logged")]
          ELSE IF v3.pending_context # None
          THEN /\ v3_cache' = store_conversation_context(v3_cache, phone, v3.pending_context, now)
               /\ v3' = [v3 EXCEPT !.pc = "respond", !.final_response = Some("clarify")]
               /\ UNCHANGED <<categories, ledger>>
          ELSE IF v3.expenses = <<>>
          THEN /\ v3_cache' = store_conversation_context(v3_cache, phone, None, now)
               /\ v3' = [v3 EXCEPT !.pc = "respond", !.final_response = Some("no_expense")]
               /\ UNCHANGED <<categories, ledger>>
          ELSE /\ v3' = [v3 EXCEPT !.pc = "respond", !.final_response = Some("rephrase")]
               /\ UNCHANGED <<categories, ledger, v3_cache>>
    /\ UNCHANGED <<config_enabled, max_history, user_contexts, now, ticks, msgs, req, sweeper, hook, call>>

\* RespondTool, then END: run_expense_agent returns the state
RespondTool ==
    /\ v3.pc = "respond"
    /\ v3' = [v3 EXCEPT !.pc = "done"]
    /\ UNCHANGED <<config_enabled, max_history, user_contexts, categories, ledger, now, ticks,
                   msgs, req, sweeper, v3_cache, hook, call>>

\* the clock between two v3 messages
V3Tick ==
    /\ v3.pc \in {"idle", "done"}
    /\ ticks < MaxV3Ticks
    /\ ticks' = ticks + 1
    /\ now' = now + V3Quantum
    /\ UNCHANGED <<config_enabled, max_history, user_contexts, categories, ledger, msgs, req,
                   sweeper, v3_cache, v3, hook, call>>

(***************************************************************************)
(* The inputs of the specifications                                        *)
(***************************************************************************)
Intents == {"log_expense", "acknowledgment", "clarification"}

Texts == {T_i, T_Spent, T_900, T_1500, T_popcorn}

Amounts == {None, Some(900), Some(1500)}

Items == {None, Some(T_popcorn)}

Categories == {None, Some(C_Food)}

ExampleTriples ==
    <<Triple(Some(500), Some(<<"a", "p", "p", "l", "e", "s">>), None),
      Triple(None, Some(<<"c", "a", "r", "r", "o", "t", "s">>), None),
      Triple(Some(200), Some(<<"b", "a", "n", "a", "n", "a", "s">>), None)>>

TripleLists == {<<>>, ExampleTriples}

Output(tool, intent, amount, item, category, list) ==
    [tool_name |-> tool, intent |-> intent, amount |-> amount, item |-> item,
     category |-> category, multiple_expenses |-> list]

\* what the oracle may answer; the fields the chosen tool does not read are left empty
LogOutputs ==
    {Output(Some("log_expense_tool"), i, a, it, c, <<>>) :
        i \in {"log_expense", "clarification"}, a \in Amounts, it \in Items, c \in Categories}

MultiOutputs ==
    {Output(Some("log_multiple_expenses_tool"), i, None, None, None, l) :
        i \in {"log_expense", "clarification"}, l \in TripleLists}

OtherOutputs ==
    {Output(Some(t), i, None, None, None, <<>>) :
        t \in {"query_expenses_tool", "get_total_expenses_tool", "greeting_tool",
               "clarification_tool"},
        i \in Intents}
    \cup {Output(t, "clarification", None, None, None, <<>>) : t \in {Some("no_such_tool"), None}}

RouterOutputs == LogOutputs \cup MultiOutputs \cup OtherOutputs

\* the steps of worker w on the message it holds
Steps(w, outputs, faults, llms) ==
    \/ \E out \in outputs : Route(w, out)
    \/ RouteFallback(w)
    \/ RouteRaises(w)
    \/ \E fault \in faults : LogExpenseTool(w, fault)
    \/ \E at \in 0..Len(ExampleTriples), fault \in faults : LogMultipleExpensesTool(w, at, fault)
    \/ \E ok \in {f = "none" : f \in faults} : QueryExpensesTool(w, ok)
    \/ \E ok \in {f = "none" : f \in faults} : GetTotalExpensesTool(w, ok)
    \/ GreetingTool(w)
    \/ ClarificationTool(w)
    \/ \E llm \in llms : FinalResponse(w, llm)
    \/ Record(w)

(***************************************************************************)
(* Spec: the dialogue of one known user (and an unknown one), one message  *)
(* at a time; the clock stands still and the sweep does not run.           *)
(***************************************************************************)
Quiet == sweeper.pc = "idle" /\ \A w \in Workers : ~InFlight(w)

Next ==
    \/ \E phone \in {"p1", "p0"}, msg \in Texts :
          Quiet /\ msgs < MaxMsgs /\ Receive("w1", phone, msg)
    \/ Steps("w1", RouterOutputs, StoreFaults, LlmOutcomes)

Spec == Init /\ [][Next]_vars

(***************************************************************************)
(* SpecLog: the slot-filling dialogue of one user: every message is routed *)
(* to the single-expense handler.                                          *)
(***************************************************************************)
LogTexts == {T_900, T_Spent, T_popcorn}

SlotOutputs ==
    {Output(Some("log_expense_tool"), i, a, it, c, <<>>) :
        i \in {"log_expense", "clarification"}, a \in Amounts, it \in Items,
        c \in Categories}

NextLog ==
    \/ \E msg \in LogTexts : Quiet /\ msgs < MaxLogMsgs /\ Receive("w1", "p1", msg)
    \/ \E out \in SlotOutputs : Route("w1", out)
    \/ \E fault \in StoreFaults : LogExpenseTool("w1", fault)
    \/ \E llm \in LlmOutcomes : FinalResponse("w1", llm)
    \/ Record("w1")

SpecLog == Init /\ [][NextLog]_vars

(***************************************************************************)
(* SpecMulti: messages of one user with several expenses each: the oracle  *)
(* answers with any list of distinct triples of the example, in any order; *)
(* one answer is a single amount, which leaves a pending expense.          *)
(***************************************************************************)
\* the sequences without repetition over a set
ListsOver(S) ==
    UNION {{l \in [1..n -> S] : \A i, j \in 1..n : i # j => l[i] # l[j]} :
              n \in 1..Cardinality(S)}

MultiLists == ListsOver({ExampleTriples[k] : k \in 1..Len(ExampleTriples)})

ListOutputs ==
    {Output(Some("log_multiple_expenses_tool"), i, None, None, None, l) :
        i \in {"log_expense", "clarification"}, l \in MultiLists \cup {<<>>}}
    \cup {Output(Some("log_expense_tool"), "log_expense", Some(900), None, None, <<>>)}

NextMulti ==
    \/ Quiet /\ msgs < MaxMultiMsgs /\ Receive("w1", "p1", T_popcorn)
    \/ \E out \in ListOutputs : Route("w1", out)
    \/ LogExpenseTool("w1", "none")
    \/ \E at \in 0..Len(ExampleTriples), fault \in StoreFaults :
          LogMultipleExpensesTool("w1", at, fault)
    \/ FinalResponse("w1", "text")
    \/ Record("w1")

SpecMulti == Init /\ [][NextMulti]_vars

(***************************************************************************)
(* SpecStore: the session store called directly, one call at a time: a     *)
(* ConversationMemory built with any max_history, turns recorded for p1,   *)
(* pending expenses set for p1 and p2, the clock and the sweep.            *)
(***************************************************************************)
\* the capacities a store is built with
Capacities == {MaxHistoryDefault - 5, MaxHistoryDefault, MaxHistoryDefault + 5}

InitStore ==
    /\ config_enabled = TRUE
    /\ max_history \in Capacities
    /\ user_contexts = [p \in {} |-> NewContext(0)]
    /\ categories = {}
    /\ ledger = <<>>
    /\ now = 0
    /\ ticks = 0
    /\ msgs = 0
    /\ req = [w \in Workers |-> IdleReq]
    /\ sweeper = [pc |-> "idle", expired_users |-> {}, removed |-> 0]
    /\ v3_cache = NoCache
    /\ v3 = IdleV3
    /\ hook = IdleHook
    /\ call = NoCall

\* the n-th turn recorded: its message has n characters
TurnNo(n) ==
    [user_message |-> [k \in 1..n |-> "x"], bot_response |-> "reply", intent |-> "log_expense"]

\* memory.add_conversation_turn(phone, ...)
StoreAddTurn(phone) ==
    /\ sweeper.pc = "idle"
    /\ msgs < MaxTurns
    /\ msgs' = msgs + 1
    /\ user_contexts' = AddTurn(user_contexts, phone, TurnNo(msgs + 1), now)
    /\ UNCHANGED <<call, v3_cache, v3, hook, config_enabled, max_history, categories, ledger, now, ticks, req, sweeper>>

\* memory.set_pending_expense(phone, pe)
StoreSetPending(phone, pe) ==
    /\ sweeper.pc = "idle"
    /\ user_contexts' = SetPending(user_contexts, phone, pe, now)
    /\ UNCHANGED <<call, v3_cache, v3, hook, config_enabled, max_history, categories, ledger, now, ticks, msgs, req, sweeper>>

\* memory.get_user_context called on its own
StoreGetUserContext(phone) ==
    /\ sweeper.pc = "idle"
    /\ user_contexts' = GetUserContext(user_contexts, phone, now)
    /\ UNCHANGED <<call, v3_cache, v3, hook, config_enabled, max_history, categories, ledger, now, ticks, msgs, req, sweeper>>

NextStore ==
    \/ StoreAddTurn("p1")
    \/ \E phone \in {"p1", "p2"} : StoreGetUserContext(phone)
    \/ \E phone \in {"p1", "p2"},
          pe \in {None, Some([amount |-> Some(900), item |-> None, category |-> None])} :
          StoreSetPending(phone, pe)
    \/ Quiet /\ Tick
    \/ SweepScan
    \/ \E phone \in Phones : SweepDelete(phone)

SpecStore == InitStore /\ [][NextStore]_vars

(***************************************************************************)
(* SpecConc: two worker threads, two users, the clock and the sweeper,     *)
(* interleaved step by step.  A message and a sweep each take less than    *)
(* one clock advance: the clock moves when neither is in progress.         *)
(***************************************************************************)
ConcTexts == {T_intro}

ConcOutputs ==
    {Output(Some("log_expense_tool"), "log_expense", Some(1500), None, None, <<>>),
     Output(Some("log_multiple_expenses_tool"), "log_expense", None, None, None, ExampleTriples),
     Output(Some("query_expenses_tool"), "log_expense", None, None, None, <<>>),
     Output(Some("get_total_expenses_tool"), "clarification", None, None, None, <<>>),
     Output(Some("greeting_tool"), "log_expense", None, None, None, <<>>),
     Output(Some("clarification_tool"), "introduction", None, None, None, <<>>)}

\* the pool hands a message to its first free thread
FirstFree == IF ~InFlight("w1") THEN "w1" ELSE "w2"

NextConc ==
    \/ \E w \in Workers, phone \in {"p1", "p2"}, msg \in ConcTexts :
          msgs < MaxConcMsgs /\ w = FirstFree /\ Receive(w, phone, msg)
    \/ \E w \in Workers : Steps(w, ConcOutputs, {"none"}, {"text"})
    \/ Quiet /\ Tick
    \/ SweepScan
    \/ \E phone \in Phones : SweepDelete(phone)

SpecConc == Init /\ [][NextConc]_vars


(***************************************************************************)
(* Properties of the dialogue (Spec).  R is the message worker w1 holds;   *)
(* once it is done R keeps the oracle's answer (extracted_data), the       *)
(* pending expense read at the start (pending_expense), the rows the       *)
(* message created and what get_pending returned when it finished.         *)
(***************************************************************************)
R == req["w1"]

\* the message has been processed and the named tool node ran for it
Ran(tool) == R.pc = "done" /\ R.tool_result # None /\ ToolOf(R) = tool

Status == R.tool_result[1].status

\* the store raised while the message was handled
StoreRaised == R.tool_result[1].error \in {"category", "expense"}

\* the pending expense read at the start of the message is present, with / without
HadPending == R.pending_expense # None

Digits == <<"0", "1", "2", "3", "4", "5", "6", "7", "8", "9">>

IsBareNumber(text) ==
    text # <<>> /\ \A k \in 1..Len(text) : \E d \in 1..10 : Digits[d] = text[k]

RECURSIVE NumericValue(_)
NumericValue(text) ==
    IF text = <<>> THEN 0
    ELSE 10 * NumericValue(SubSeq(text, 1, Len(text) - 1))
         + (CHOOSE d \in 1..10 : Digits[d] = text[Len(text)]) - 1

\* C's value if it is present and non-empty, otherwise P's
PreferAmount(c, p) == IF TruthyAmount(c) THEN c ELSE p

PreferText(c, p) == IF TruthyText(c) THEN c ELSE p

\* C1: completion commits exactly once.  An amount-only message to the
\* single-expense handler with nothing pending writes nothing; an item-only
\* message that follows it (it finds the amount pending, no item) makes exactly
\* one create_expense call, with that amount and the item as note, and leaves
\* no pending expense.  Store failures are C2's subject and left out.
C1_CompletionCommitsOnce ==
    /\ (Ran("log_expense_tool") /\ ~HadPending
        /\ TruthyAmount(R.extracted_data.amount) /\ ~TruthyText(R.extracted_data.item))
       => R.created = <<>>
    /\ (Ran("log_expense_tool") /\ HadPending /\ ~StoreRaised
        /\ TruthyAmount(R.pending_expense[1].amount) /\ ~TruthyText(R.pending_expense[1].item)
        /\ R.extracted_data.amount = None /\ TruthyText(R.extracted_data.item))
       => /\ Len(R.created) = 1
          /\ R.created[1].amount = R.pending_expense[1].amount[1]
          /\ R.created[1].note = R.extracted_data.item[1]
          /\ R.pending_after = None

\* C2: a store failure preserves the slots.  When get_or_create_category or
\* create_expense raises during the commit, the handler's result is an error
\* and the pending expense after the message is the one before it.
C2_StoreFailurePreservesSlots ==
    (Ran("log_expense_tool") /\ StoreRaised)
    => /\ Status = "error"
       /\ R.created = <<>>
       /\ R.pending_after = R.pending_expense

C2_Witness ==
    /\ Ran("log_expense_tool") /\ R.tool_result[1].error = "expense"
    /\ HadPending
    /\ R.pending_after = R.pending_expense

\* C3: the ambiguity guard.  After a message whose trimmed text has at most 3
\* characters or is a stop word, the user has no pending expense, whatever was
\* pending before and whichever handler ran.
C3_AmbiguityGuard ==
    (R.pc = "done" /\ IsUnclearMessage(R.user_message)) => R.pending_after = None

\* C4: a bare number is a slot answer.  With an item pending and no amount, a
\* bare-number reply of any length, extracted as the amount and routed to the
\* single-expense handler, is committed with exactly one create_expense call
\* and the pending expense is cleared.
C4_BareNumberIsSlotAnswer ==
    (Ran("log_expense_tool") /\ HadPending /\ ~StoreRaised
     /\ TruthyText(R.pending_expense[1].item) /\ ~TruthyAmount(R.pending_expense[1].amount)
     /\ IsBareNumber(R.user_message)
     /\ R.extracted_data.amount = Some(NumericValue(R.user_message))
     /\ R.extracted_data.item = None)
    => /\ Len(R.created) = 1
       /\ R.created[1].amount = NumericValue(R.user_message)
       /\ R.created[1].note = R.pending_expense[1].item[1]
       /\ R.pending_after = None

\* C5: the merge rule.  When the single-expense handler merges the pending
\* expense P with the candidate C and stores the incomplete result, each of
\* amount, item and category stored is C's value if C has one, otherwise P's.
C5_MergeRule ==
    (Ran("log_expense_tool") /\ HadPending /\ Status = "incomplete"
     /\ ~IsUnclearMessage(R.user_message) /\ R.tool_result[1].pending_expense # None)
    => LET P == R.pending_expense[1]
           C == R.extracted_data
           M == R.tool_result[1].pending_expense[1]
       IN /\ M.amount = PreferAmount(C.amount, P.amount)
          /\ M.item = PreferText(C.item, P.item)
          /\ M.category = PreferText(C.category, P.category)

\* C6: merge idempotence.  With P pending, a message to the single-expense
\* handler that yields an empty candidate and is not short or a stop word
\* leaves a pending expense equal to P in amount, item and category.
C6_MergeIdempotence ==
    (Ran("log_expense_tool") /\ HadPending /\ ~IsUnclearMessage(R.user_message)
     /\ R.extracted_data = [amount |-> None, item |-> None, category |-> None])
    => R.pending_after = R.pending_expense

\* C7: what the claim singles out of "a pending expense exists if and only if
\* the last run of the single-expense handler returned incomplete": after a
\* run that returned success no pending expense exists, and after a run that
\* returned incomplete no pending expense with both amount and item known
\* stays stored.
C7_PendingIffIncomplete ==
    Ran("log_expense_tool")
    => /\ Status = "success" => R.pending_after = None
       /\ (Status = "incomplete" /\ R.pending_after # None)
          => ~(TruthyAmount(R.pending_after[1].amount) /\ TruthyText(R.pending_after[1].item))


(***************************************************************************)
(* Properties of the interleaved system (SpecConc)                         *)
(***************************************************************************)
\* the ledger rows of the account behind a phone number
RowsOf(rows, phone) == SelectSeq(rows, LAMBDA e : Some(e.user_id) = UserOf(phone))

\* the session of a phone number, None if there is none
SessionOf(mem, phone) == IF phone \in DOMAIN mem THEN Some(mem[phone]) ELSE None

\* C8: per-user serialisation.  Two messages of one user are never in
\* progress together, so the pending expense a message read when it started
\* is still the stored one when its tool node runs.
C8_PerUserSerialisation ==
    /\ \A a, b \in Workers :
          (a # b /\ InFlight(a) /\ InFlight(b)) => req[a].phone # req[b].phone
    /\ \A w \in Workers :
          req[w].pc = "tool" => req[w].pending_expense = GetPending(user_contexts, req[w].phone)

\* C9: cross-user isolation.  A step of the processing of a message of one
\* user leaves the session of every other user (history, last interaction,
\* pending expense) and the ledger rows of every other user as they were.
C9_CrossUserIsolation ==
    [][\A w \in Workers :
          req'[w] # req[w]
          => \A p \in Phones \ {req'[w].phone} :
                /\ SessionOf(user_contexts', p) = SessionOf(user_contexts, p)
                /\ RowsOf(ledger', p) = RowsOf(ledger, p)]_vars

\* a message of p1 has written the ledger and finished while p2 has a session
\* with a pending expense, and conversely p2 wrote a pending expense while p1
\* already had a session
C9_Witness ==
    /\ \E w \in Workers :
          req[w].pc = "done" /\ req[w].phone = "p1" /\ req[w].created # <<>>
    /\ "p2" \in DOMAIN user_contexts
    /\ "p1" \in DOMAIN user_contexts
    /\ user_contexts["p2"].pending_expense # None
    /\ user_contexts["p1"].conversation_history # <<>>

\* C10: the sweep is safe beside message processing.  It removes a session
\* only when the session is older than the TTL and no message of that user is
\* in flight, so nothing such a message wrote is lost.
C10_SweepExclusion ==
    [][\A p \in Phones :
          (p \in DOMAIN user_contexts /\ p \notin DOMAIN user_contexts')
          => /\ now - user_contexts[p].last_interaction > TtlSeconds
             /\ \A w \in Workers : ~(InFlight(w) /\ req[w].phone = p)]_vars

\* the two entry points, called for a known and for an unknown number
MaxEntryMsgs == 3

EntryOutputs ==
    {Output(Some("log_expense_tool"), "log_expense", Some(900), it, None, <<>>) : it \in Items}

NextEntry ==
    \/ \E phone \in {"p1", "p0"} :
          Quiet /\ msgs < MaxEntryMsgs /\ Receive("w1", phone, T_popcorn)
    \/ \E phone \in {"p1", "p0"} :
          Quiet /\ msgs < MaxEntryMsgs /\ ProcessMessageWithAgent("w1", phone, T_popcorn)
    \/ \E out \in EntryOutputs : Route("w1", out)
    \/ LogExpenseTool("w1", "none")
    \/ FinalResponse("w1", "text")
    \/ Record("w1")

SpecEntry == Init /\ [][NextEntry]_vars

\* the oracle failing: besides a well-formed answer that logs an amount, the
\* router's answer holds no JSON object or the call raises, and the final
\* response call answers, answers nothing or raises
MaxOracleMsgs == 2

OracleTexts == {T_popcorn, T_i}

OracleOutputs ==
    {Output(Some("log_expense_tool"), "log_expense", Some(900), None, None, <<>>)}

NextOracle ==
    \/ \E msg \in OracleTexts : Quiet /\ msgs < MaxOracleMsgs /\ Receive("w1", "p1", msg)
    \/ \E out \in OracleOutputs : Route("w1", out)
    \/ RouteFallback("w1")
    \/ RouteRaises("w1")
    \/ LogExpenseTool("w1", "none")
    \/ ClarificationTool("w1")
    \/ \E llm \in LlmOutcomes : FinalResponse("w1", llm)
    \/ Record("w1")

SpecOracle == Init /\ [][NextOracle]_vars

\* every failure: of the user lookup, the router, a handler's store calls and
\* the final response, for one text through both entry points
MaxFailMsgs == 1

NextFail ==
    \/ \E phone \in {"p1", "p0"} :
          Quiet /\ msgs < MaxFailMsgs /\ Receive("w1", phone, T_popcorn)
    \/ \E phone \in {"p1", "p0"} :
          Quiet /\ msgs < MaxFailMsgs /\ ProcessMessageWithAgent("w1", phone, T_popcorn)
    \/ Quiet /\ msgs < MaxFailMsgs /\ LookupRaises("w1", "p1", T_popcorn)
    \/ Steps("w1", RouterOutputs, StoreFaults, LlmOutcomes)

SpecFail == Init /\ [][NextFail]_vars

\* amounts of either sign, extracted for the single-expense handler and as
\* the triples of a list
MaxAmountMsgs == 2

SignedAmounts == {Some(0), Some(-5), Some(900)}

AmountOutputs ==
    {Output(Some("log_expense_tool"), "log_expense", a, Some(T_popcorn), None, <<>>) :
        a \in SignedAmounts}
    \cup {Output(Some("log_multiple_expenses_tool"), "log_expense", None, None, None,
                 <<Triple(a, Some(T_popcorn), None), Triple(b, Some(T_popcorn), None)>>) :
             a \in SignedAmounts, b \in SignedAmounts}

NextAmount ==
    \/ Quiet /\ msgs < MaxAmountMsgs /\ Receive("w1", "p1", T_popcorn)
    \/ \E out \in AmountOutputs : Route("w1", out)
    \/ LogExpenseTool("w1", "none")
    \/ LogMultipleExpensesTool("w1", 0, "none")
    \/ FinalResponse("w1", "text")
    \/ Record("w1")

SpecAmount == Init /\ [][NextAmount]_vars

(***************************************************************************)
(* Properties of the other handlers                                        *)
(***************************************************************************)
\* a triple gives both an amount and an item
HasAmountAndItem(e) ==
    /\ e.amount # None /\ e.amount[1] # 0
    /\ e.item # None /\ e.item[1] # <<>>

\* the indices of a list that satisfy Test, in list order
IndicesWhere(list, Test(_)) ==
    SelectSeq([k \in 1..Len(list) |-> k], Test)

\* C11: partial multi-expense.  For a non-empty list of triples the
\* multi-expense handler makes one create_expense call, in list order, for
\* exactly the triples that give both an amount and an item (and whose store
\* calls do not raise), reports every other triple as failed in list order,
\* and returns both lists in one success result.
C11_PartialMultiExpense ==
    [][\A at \in 0..Len(ExampleTriples), fault \in StoreFaults :
          (LogMultipleExpensesTool("w1", at, fault)
           /\ R.user_id # None /\ R.multiple_expenses # <<>>)
          => LET list == R.multiple_expenses
                 good == IndicesWhere(list, LAMBDA k : HasAmountAndItem(list[k]) /\ k # at)
                 bad == IndicesWhere(list, LAMBDA k : ~(HasAmountAndItem(list[k]) /\ k # at))
                 res == req'["w1"].tool_result[1]
             IN /\ Len(ledger') = Len(ledger) + Len(good)
                /\ SubSeq(ledger', 1, Len(ledger)) = ledger
                /\ \A j \in 1..Len(good) :
                      /\ ledger'[Len(ledger) + j].user_id = R.user_id[1]
                      /\ ledger'[Len(ledger) + j].amount = list[good[j]].amount[1]
                      /\ ledger'[Len(ledger) + j].note = list[good[j]].item[1]
                /\ res.status = "success"
                /\ Len(res.logged_expenses) = Len(good)
                /\ \A j \in 1..Len(good) :
                      /\ res.logged_expenses[j].amount = list[good[j]].amount
                      /\ res.logged_expenses[j].item = list[good[j]].item
                /\ res.failed_expenses = [j \in 1..Len(bad) |-> list[bad[j]]]]_vars

\* the example list has been handled without a store failure: two rows
\* written, one triple reported failed
C11_Witness ==
    /\ Ran("log_multiple_expenses_tool")
    /\ R.multiple_expenses = ExampleTriples
    /\ Len(R.created) = 2
    /\ Len(R.tool_result[1].failed_expenses) = 1

\* C12: the multi-expense handler never creates a pending expense.  If the
\* user had none before a message routed to it, the user has none after the
\* message, whatever the triples and the intent label.
C12_MultiCreatesNoPending ==
    (Ran("log_multiple_expenses_tool") /\ ~HadPending) => R.pending_after = None

\* a message with a triple that lacks its amount, labelled clarification,
\* has been handled for a user with nothing pending
C12_Witness ==
    /\ Ran("log_multiple_expenses_tool") /\ ~HadPending
    /\ R.intent = "clarification"
    /\ R.tool_result[1].failed_expenses # <<>>
    /\ R.result # None
    /\ R.pending_after = None

\* C13: the greeting handler is a frame.  A message routed to it yields a
\* success result and leaves the pending expense as it was before the
\* message, whatever the intent label.
C13_GreetingKeepsPending ==
    Ran("greeting_tool")
    => /\ Status = "success"
       /\ R.pending_after = R.pending_expense

\* C14: queries never consume pending slots.  A message routed to the query
\* handler or to the total handler writes no ledger row and leaves the
\* pending expense as it was before the message, whatever the intent label.
C14_QueriesKeepPending ==
    (Ran("query_expenses_tool") \/ Ran("get_total_expenses_tool"))
    => /\ R.created = <<>>
       /\ R.pending_after = R.pending_expense

(***************************************************************************)
(* Properties of the session store                                         *)
(***************************************************************************)
\* C15: at most one pending expense per user.  In every state each session
\* holds no pending expense or a single one, and a pending expense the
\* single-expense handler stores replaces the previous one: what get_pending
\* returns after the message is exactly the record the handler stored.
C15_AtMostOnePending ==
    /\ \A p \in DOMAIN user_contexts : Len(user_contexts[p].pending_expense) <= 1
    /\ (Ran("log_expense_tool") /\ Status = "incomplete")
       => R.pending_after = R.tool_result[1].pending_expense

\* a pending expense has been replaced by a different one
C15_Witness ==
    /\ Ran("log_expense_tool") /\ Status = "incomplete"
    /\ HadPending
    /\ R.pending_after # None
    /\ R.pending_after # R.pending_expense

\* C16: the history bound.  For a store built with capacity max_history the
\* history of a session never holds more than max_history turns, and once
\* max_history + 5 turns have been recorded in a session it holds exactly the
\* max_history most recent of them, in order.
C16_HistoryBound ==
    /\ \A p \in DOMAIN user_contexts :
          Len(user_contexts[p].conversation_history) <= max_history
    /\ (ticks = 0 /\ msgs >= max_history + 5)
       => user_contexts["p1"].conversation_history
             = [k \in 1..max_history |-> TurnNo(msgs - max_history + k)]

\* the session is older than the TTL
OlderThanTtl(session) == now - session.last_interaction > TtlSeconds

\* C17: the TTL sweep.  A step of cleanup_expired_contexts that deletes
\* leaves every session touched within the TTL in the store with its history
\* and pending expense unchanged, and when the sweep has finished no session
\* older than the TTL is left in the store.
C17_TtlSweep ==
    [][(\E phone \in Phones : SweepDelete(phone))
       => /\ \A p \in DOMAIN user_contexts :
                ~OlderThanTtl(user_contexts[p])
                => (p \in DOMAIN user_contexts' /\ user_contexts'[p] = user_contexts[p])
          /\ sweeper'.pc = "idle"
             => \A p \in DOMAIN user_contexts' : ~OlderThanTtl(user_contexts'[p])]_vars

\* C18: an unknown user creates no state.  No session exists for a number
\* without an account, and a message from such a number is finished at once
\* with no reply: the oracle is never asked and no ledger row is created.
C18_UnknownUserNoState ==
    /\ \A p \in DOMAIN user_contexts : UserOf(p) # None
    /\ \A w \in Workers :
          (req[w].phone \in Phones /\ UserOf(req[w].phone) = None)
          => (req[w].pc = "done" /\ req[w].result = None /\ req[w].created = <<>>)

(***************************************************************************)
(* Properties of the oracle's failures                                     *)
(***************************************************************************)
\* under SpecOracle the clarification handler is reached only by the fallback
RouterUnparseable(r) == r.tool_name = Some("clarification_tool")

\* the message ended without a reply although the user is known: the router
\* call raised, or the final response call raised or answered nothing
EndedWithoutReply(r) == r.pc = "done" /\ r.result = None /\ r.user_id # None

\* get_conversation_context without the session it would create
HistoryOf(mem, phone) ==
    IF phone \in DOMAIN mem THEN mem[phone].conversation_history ELSE <<>>

\* C19: an oracle failure leaves the session untouched.  No step of a message
\* whose router answer was unparseable, or that ended without a reply because
\* an oracle call raised or answered nothing, changes the conversation
\* history, and when such a message ends the pending expense is the one the
\* message started with.
C19_OracleFailureKeepsSession ==
    [][\A w \in Workers :
          (req'[w] # req[w] /\ (RouterUnparseable(req'[w]) \/ EndedWithoutReply(req'[w])))
          => /\ HistoryOf(user_contexts', req'[w].phone) = HistoryOf(user_contexts, req'[w].phone)
             /\ req'[w].pc = "done" => req'[w].pending_after = req'[w].pending_expense]_vars

\* C20: graceful degradation.  When the router's answer holds no JSON object
\* the message goes on to the clarification handler with intent
\* "clarification", no amount, item or category and an empty multi-expense
\* list; nothing is raised, and the session and the ledger are as they were.
C20_FallbackToClarification ==
    [][\A w \in Workers :
          RouteFallback(w)
          => /\ req'[w].pc = "tool"
             /\ ToolOf(req'[w]) = "clarification_tool"
             /\ req'[w].intent = "clarification"
             /\ req'[w].amount = None /\ req'[w].item = None /\ req'[w].category = None
             /\ req'[w].extracted_data = [amount |-> None, item |-> None, category |-> None]
             /\ req'[w].multiple_expenses = <<>>
             /\ UNCHANGED <<user_contexts, ledger>>]_vars

\* a message whose router answer was unparseable has been answered by the
\* clarification handler while a pending expense was stored
C20_Witness ==
    \E w \in Workers :
        /\ req[w].pc = "done" /\ req[w].result # None
        /\ RouterUnparseable(req[w]) /\ req[w].intent = "clarification"
        /\ req[w].tool_result # None /\ req[w].tool_result[1].status = "clarification_needed"
        /\ req[w].pending_expense # None

(***************************************************************************)
(* Properties of routing                                                   *)
(***************************************************************************)
\* the five handlers other than clarification
NonClarificationTools == ToolNames \ {"clarification_tool"}

\* the router has answered for the message (llm_router_node sets the intent)
Routed == R.intent # ""

\* C21: routing is total.  Once the router has answered, the message goes to
\* one of the six handlers, which produces a tool result, and when the tool
\* named is absent or is not one of the five other handlers it is the
\* clarification handler that runs.
C21_RoutingTotal ==
    (Routed /\ R.pc \in {"final", "record", "done"})
    => /\ R.tool_result # None
       /\ ToolOf(R) \in ToolNames
       /\ (R.tool_name = None \/ R.tool_name[1] \notin NonClarificationTools)
          => R.tool_result[1].status = "clarification_needed"

\* a number followed by one multiplier letter
IsShorthandNumber(text) ==
    /\ Len(text) >= 2
    /\ text[Len(text)] \in {"k", "m", "K", "M"}
    /\ IsBareNumber(SubSeq(text, 1, Len(text) - 1))

YesNoTokens == {<<"y", "e", "s">>, <<"n", "o">>, <<"y">>, <<"n">>}

\* the message is purely numeric, a number with a multiplier, or yes / no
IsPlausibleSlotAnswer(msg) ==
    \/ IsBareNumber(Strip(msg))
    \/ IsShorthandNumber(Strip(msg))
    \/ Lower(Strip(msg)) \in YesNoTokens

\* the router left the intent unresolved: llm_router_node's default
UnresolvedIntent == R.intent = "clarification"

\* C22: the ambiguity test for an unresolved intent.  With a pending expense
\* and an unresolved intent, a message that is not a plausible slot answer
\* does not continue the pending expense: whichever of the single-expense and
\* clarification handlers the message reached, no ledger row is created from
\* the pending values and the pending expense is left as it was.
C22_UnresolvedIntentTest ==
    (R.pc = "done" /\ Routed /\ UnresolvedIntent /\ HadPending
     /\ ToolOf(R) \in {"log_expense_tool", "clarification_tool"}
     /\ ~IsPlausibleSlotAnswer(R.user_message))
    => (R.created = <<>> /\ R.pending_after = R.pending_expense)

(***************************************************************************)
(* Properties of the orchestrator                                          *)
(***************************************************************************)
\* C23: no exception escapes the orchestrator.  Whatever fails (the user
\* lookup, the router, a handler, the ledger store, the final response), a
\* message in flight is at a node of the graph with what the node reads (a
\* tool with an edge, a tool result, a final response), and a finished
\* message has returned None or the reply that was generated, never an
\* exception.
C23_NoExceptionEscapes ==
    \A w \in Workers :
        /\ InFlight(w)
           => \/ req[w].pc = "router"
              \/ req[w].pc = "tool" /\ ToolOf(req[w]) \in ToolNames
              \/ req[w].pc = "final" /\ req[w].tool_result # None
              \/ req[w].pc = "record" /\ req[w].final_response # None
        /\ req[w].pc = "done"
           => \/ req[w].result = None
              \/ /\ req[w].final_response # None /\ req[w].final_response[1] # ""
                 /\ req[w].result = req[w].final_response

\* the store raised in the handler and then the final response call raised,
\* and the message ended with None
C23_Witness ==
    /\ R.pc = "done" /\ R.result = None
    /\ R.tool_result # None /\ R.tool_result[1].status = "error"
    /\ R.final_response = None

(***************************************************************************)
(* Properties of amounts and prompts                                       *)
(***************************************************************************)
NonPositive(a) == a # None /\ a[1] <= 0

\* C24: a non-positive amount is a missing amount.  No ledger row has an
\* amount of zero or less; the single-expense handler, given such an amount,
\* answers incomplete with the amount among the missing fields, and the
\* multi-expense handler reports every triple with such an amount as failed.
C24_NonPositiveAmountIsMissing ==
    /\ \A k \in 1..Len(ledger) : ledger[k].amount > 0
    /\ (Ran("log_expense_tool") /\ NonPositive(R.amount))
       => /\ Status = "incomplete"
          /\ \E k \in 1..Len(R.tool_result[1].missing) : R.tool_result[1].missing[k] = "amount"
    /\ (Ran("log_multiple_expenses_tool") /\ Status = "success")
       => \A k \in 1..Len(R.multiple_expenses) :
             NonPositive(R.multiple_expenses[k].amount)
             => \E f \in 1..Len(R.tool_result[1].failed_expenses) :
                   R.tool_result[1].failed_expenses[f] = R.multiple_expenses[k]

\* the fields of {amount, item} that are unknown after the merge, in the
\* handler's order
UnknownAfterMerge ==
    (IF TruthyAmount(R.amount) THEN <<>> ELSE <<"amount">>)
    \o (IF TruthyText(R.item) THEN <<>> ELSE <<"item">>)

\* C25: deterministic prompt selection.  Whenever the single-expense handler
\* answers incomplete, its missing list is exactly the fields unknown after
\* the merge, and the prompt asks for both when both are unknown and
\* otherwise for the one unknown field, naming the known one.
C25_PromptSelection ==
    (Ran("log_expense_tool") /\ Status = "incomplete")
    => /\ R.tool_result[1].missing = UnknownAfterMerge
       /\ R.tool_result[1].response =
             (IF UnknownAfterMerge = <<"amount", "item">> THEN "ask_both"
              ELSE IF UnknownAfterMerge = <<"amount">> THEN "ask_amount"
              ELSE "ask_item")

\* C26: rendering comes last.  A step of a message that has reached the final
\* response node, or a later one, changes neither the ledger nor the user's
\* pending expense.
C26_RenderingComesLast ==
    [][\A w \in Workers :
          (req[w].pc \in {"final", "record"} /\ req'[w] # req[w])
          => /\ ledger' = ledger
             /\ GetPending(user_contexts', req[w].phone)
                = GetPending(user_contexts, req[w].phone)]_vars

(***************************************************************************)
(* Properties of the history and the store's interface                     *)
(***************************************************************************)
\* worker w finishes its message in this step
Finishes(w) == req[w].pc # "done" /\ req'[w].pc = "done"

\* h2 is h with the one turn x appended, the oldest turns dropped at most
AppendsOne(h, h2, x) ==
    /\ Len(h2) = (IF Len(h) < HistoryMaxLen THEN Len(h) + 1 ELSE HistoryMaxLen)
    /\ h2[Len(h2)] = x
    /\ \A k \in 1..(Len(h2) - 1) : h2[k] = h[Len(h) - (Len(h2) - 1) + k]

\* C27: one turn per processed message.  The step that finishes a message
\* with a reply appends exactly one turn (the user's text, the reply, the
\* intent) to the user's history, leaving the earlier turns as they were,
\* and sets last_interaction to the present time; every other step of a
\* message, its end with None included, leaves the history unchanged.
C27_OneTurnPerMessage ==
    [][\A w \in Workers :
          req'[w] # req[w]
          => LET p == req'[w].phone
             IN IF Finishes(w) /\ req'[w].result # None
                THEN /\ AppendsOne(HistoryOf(user_contexts, p), HistoryOf(user_contexts', p),
                                   [user_message |-> req'[w].user_message,
                                    bot_response |-> req'[w].result[1],
                                    intent |-> req'[w].intent])
                     /\ user_contexts'[p].last_interaction = now
                ELSE HistoryOf(user_contexts', p) = HistoryOf(user_contexts, p)]_vars

\* a second message has been answered: the history holds two turns
C27_Witness ==
    /\ R.pc = "done" /\ R.result # None
    /\ "p1" \in DOMAIN user_contexts
    /\ Len(user_contexts["p1"].conversation_history) = 2
    /\ user_contexts["p1"].conversation_history[2].user_message = R.user_message

\* C28: session creation is idempotent.  get_user_context for an identifier
\* that has a session changes nothing in the store; for an absent identifier
\* it adds a session with no history, no name and no pending expense, and
\* leaves the other sessions as they were.
C28_SessionCreationIdempotent ==
    [][\A phone \in Phones :
          StoreGetUserContext(phone)
          => IF phone \in DOMAIN user_contexts
             THEN user_contexts' = user_contexts
             ELSE /\ DOMAIN user_contexts' = DOMAIN user_contexts \cup {phone}
                  /\ user_contexts'[phone].conversation_history = <<>>
                  /\ user_contexts'[phone].pending_expense = None
                  /\ user_contexts'[phone].name = None
                  /\ \A p \in DOMAIN user_contexts : user_contexts'[p] = user_contexts[p]]_vars

\* the session of p1 holds turns and a pending expense from before the clock
\* moved, and the session of p2 has been created empty after it
C28_Witness ==
    /\ "p1" \in DOMAIN user_contexts /\ "p2" \in DOMAIN user_contexts
    /\ user_contexts["p1"].conversation_history # <<>>
    /\ user_contexts["p1"].pending_expense # None
    /\ user_contexts["p1"].last_interaction < now
    /\ user_contexts["p2"].conversation_history = <<>>
    /\ user_contexts["p2"].pending_expense = None
    /\ user_contexts["p2"].last_interaction = now

\* C29: the sweep returns the number of sessions it removed.  When
\* cleanup_expired_contexts finishes, the value it returns is the count of
\* the sessions that were in the store before the sweep and are gone after it.
C29_SweepReturnsCount ==
    [][\A phone \in Phones :
          (SweepDelete(phone) /\ sweeper'.pc = "idle")
          => SweepReturn(sweeper.removed + 1) = Some(sweeper.removed + 1)]_vars

(***************************************************************************)
(* Properties of the feature flag                                          *)
(***************************************************************************)
\* C30: a disabled agent is a no-op.  While the agent is disabled every
\* message handed to it has ended at once with None: the router was not
\* asked, no handler ran, the store holds no session and the ledger no row.
\* Enabled or not, a message that ended without a final response (an error)
\* returned None.
C30_DisabledAgentIsNoOp ==
    /\ ~config_enabled
       => /\ user_contexts = <<>>
          /\ ledger = <<>> /\ categories = {}
          /\ \A w \in Workers :
                req[w].pc \in {"idle", "done"}
                /\ (req[w].pc = "done"
                    => /\ req[w].result = None
                       /\ req[w].intent = "" /\ req[w].tool_name = None
                       /\ req[w].tool_result = None /\ req[w].final_response = None)
    /\ \A w \in Workers :
          (req[w].pc = "done" /\ req[w].final_response = None) => req[w].result = None

\* a message of a known user has been handed to the disabled agent
C30_Witness ==
    /\ ~config_enabled
    /\ R.pc = "done" /\ R.phone = "p1" /\ R.user_message = T_popcorn
    /\ msgs > 0

(***************************************************************************)
(* SpecV3: agent v3 on the messages of one user, the clock advancing       *)
(* between messages.                                                       *)
(***************************************************************************)
V3Texts == {W_spent800, W_popcorn, W_popcorn500, W_hello}

V3Intents == {"log_expense", "chitchat"}

NextV3 ==
    \/ \E message \in V3Texts : msgs < MaxV3Msgs /\ RunExpenseAgent("p1", message)
    \/ \E intent \in V3Intents : IntentTool(intent)
    \/ \E ok \in BOOLEAN : ExtractExpenseTool(ok)
    \/ \E at \in 0..1 : CreateExpenseTool(at)
    \/ RespondTool
    \/ V3Tick

SpecV3 == Init /\ [][NextV3]_vars

\* the context "spent 800" leaves behind
AskedFor800 == Some([type |-> "missing_item", amount |-> Some(800), item |-> None])

\* C31: when "popcorn" arrives less than 5 minutes after "spent 800" left its
\* context, is taken as an expense, and neither the oracle nor the store
\* fails, it logs exactly one expense, of 800, and the stored context is gone.
C31_ContextPersistence ==
    (/\ v3.pc = "done"
     /\ v3.message = W_popcorn
     /\ v3.context_before = AskedFor800
     /\ v3.intent = Some("log_expense")
     /\ v3.final_response \in {Some("logged"), Some("clarify")})
    => /\ Len(v3.created) = 1
       /\ v3.created[1].amount = 800
       /\ v3.phone_number \notin DOMAIN v3_cache

(***************************************************************************)
(* graph.py: parse_amount.  A float is modelled as a decimal: mant * 10^exp *)
(* with mant not a multiple of 10 (and exp = 0 for zero).                  *)
(***************************************************************************)
\* str.replace(c, '')
Remove(t, c) == SelectSeq(t, LAMBDA x : x # c)

\* `c in t`
HasChar(t, c) == \E k \in 1..Len(t) : t[k] = c

\* the decimal mant * 10^exp in normal form
RECURSIVE Decimal(_, _)
Decimal(mant, exp) ==
    IF mant = 0 THEN [mant |-> 0, exp |-> 0]
    ELSE IF mant % 10 = 0 THEN Decimal(mant \div 10, exp + 1)
    ELSE [mant |-> mant, exp |-> exp]

\* float(t) for texts of digits, points and blanks; None where float raises
\* ValueError.  float strips blanks at both ends.
FloatOf(t) ==
    LET u == Strip(t)
        dots == {k \in 1..Len(u) : u[k] = "."}
        digits == {k \in 1..Len(u) : \E d \in 1..10 : Digits[d] = u[k]}
    IN IF digits = {} \/ Cardinality(dots) > 1 \/ digits \cup dots # 1..Len(u) THEN None
       ELSE IF dots = {} THEN Some(Decimal(NumericValue(u), 0))
       ELSE LET dot == CHOOSE k \in dots : TRUE
            IN Some(Decimal(NumericValue(Remove(u, ".")), dot - Len(u)))

\* the product of an Optional float and 10^k
Times(f, k) == IF f = None THEN None ELSE Some(Decimal(f[1].mant, f[1].exp + k))

\* parse_amount, lines 885-913
parse_amount(amount_str) ==
    IF amount_str = None \/ amount_str[1] = <<>> THEN None
    ELSE LET s == Strip(Lower(amount_str[1]))
         IN IF HasChar(s, "k") THEN Times(FloatOf(Remove(Remove(s, "k"), ",")), 3)
            ELSE IF HasChar(s, "m") THEN Times(FloatOf(Remove(Remove(s, "m"), ",")), 6)
            ELSE FloatOf(Remove(s, ","))

\* the characters of the amount texts
AmountChars == {"1", "5", "k", "K", "m", ",", ".", " ", "x"}

AmountInputs ==
    {None} \cup {Some(t) : t \in UNION {[1..n -> AmountChars] : n \in 0..MaxAmountLen}}

InitParse ==
    /\ config_enabled = TRUE
    /\ max_history = MaxHistoryDefault
    /\ user_contexts = [p \in {} |-> NewContext(0)]
    /\ categories = {}
    /\ ledger = <<>>
    /\ now = 0
    /\ ticks = 0
    /\ msgs = 0
    /\ req = [w \in Workers |-> IdleReq]
    /\ sweeper = [pc |-> "idle", expired_users |-> {}, removed |-> 0]
    /\ v3_cache = NoCache
    /\ v3 = IdleV3
    /\ hook = IdleHook
    /\ call \in {[pc |-> "called", arg |-> a, result |-> None] : a \in AmountInputs}

\* one call of parse_amount
ParseAmount ==
    /\ call.pc = "called"
    /\ call' = [call EXCEPT !.pc = "returned", !.result = parse_amount(call.arg)]
    /\ UNCHANGED <<config_enabled, max_history, user_contexts, categories, ledger, now, ticks,
                   msgs, req, sweeper, v3_cache, v3, hook>>

NextParse == ParseAmount

SpecParse == InitParse /\ [][NextParse]_vars

\* the text without its last character
Front(t) == SubSeq(t, 1, Len(t) - 1)

\* what the amount text stands for: a number, or a number followed by k or
\* by m, case and commas ignored; None for anything else
ExpectedAmount(arg) ==
    IF arg = None \/ arg[1] = <<>> THEN None
    ELSE LET n == Remove(Strip(Lower(arg[1])), ",")
             last == IF n = <<>> THEN "" ELSE n[Len(n)]
         IN IF last = "k" /\ FloatOf(Front(n)) # None THEN Times(FloatOf(Front(n)), 3)
            ELSE IF last = "m" /\ FloatOf(Front(n)) # None THEN Times(FloatOf(Front(n)), 6)
            ELSE FloatOf(n)

\* C32: parse_amount returns n*1000 for a number with a k suffix, n*1000000
\* for a number with an m suffix, n for a plain number, and None for empty,
\* None or non-numeric input.
C32_ParseAmount == call.pc = "returned" => call.result = ExpectedAmount(call.arg)

(***************************************************************************)
(* SpecCat: messages of one user whose expenses come with and without a    *)
(* category, with items the lookup table knows (in either case) and items  *)
(* it does not know.                                                       *)
(***************************************************************************)
T_gizmo == <<"g", "i", "z", "m", "o">>

CatItems == {None, Some(T_popcorn), Some(T_Popcorn), Some(T_gizmo)}

CatCategories == {None, Some(T_empty), Some(C_Food)}

CatTriples ==
    {Triple(Some(500), Some(T_Popcorn), None),
     Triple(Some(200), Some(T_gizmo), None),
     Triple(Some(300), Some(T_popcorn), Some(C_Food))}

CatOutputs ==
    {Output(Some("log_expense_tool"), "log_expense", a, it, c, <<>>) :
        a \in {None, Some(900)}, it \in CatItems, c \in CatCategories}
    \cup {Output(Some("log_multiple_expenses_tool"), "log_expense", None, None, None, l) :
             l \in ListsOver(CatTriples)}

NextCat ==
    \/ Quiet /\ msgs < MaxCatMsgs /\ Receive("w1", "p1", T_popcorn)
    \/ \E out \in CatOutputs : Route("w1", out)
    \/ \E fault \in StoreFaults : LogExpenseTool("w1", fault)
    \/ \E at \in 0..Cardinality(CatTriples), fault \in StoreFaults :
          LogMultipleExpensesTool("w1", at, fault)
    \/ FinalResponse("w1", "text")
    \/ Record("w1")

SpecCat == Init /\ [][NextCat]_vars

\* the category an expense is to get: the given one if there is one,
\* otherwise the table's entry for the lower-cased item, otherwise "misc"
ExpectedCategory(category, item) ==
    IF TruthyText(category) THEN category[1]
    ELSE IF TruthyText(item) /\ Lower(item[1]) \in DOMAIN CategoryMap
    THEN CategoryMap[Lower(item[1])]
    ELSE C_misc

T_total == <<"t", "o", "t", "a", "l">>

QueryTexts == {T_total, T_today, T_yesterday, T_week, T_month, T_week \o <<" ">> \o T_today}

QueryOutputs ==
    {Output(Some(t), i, None, None, None, <<>>) :
        t \in {"query_expenses_tool", "get_total_expenses_tool"},
        i \in {"query", "provide_context"}}

NextQuery ==
    \/ \E phone \in {"p1", "p2"}, msg \in QueryTexts :
          Quiet /\ msgs < MaxQueryMsgs /\ Receive("w1", phone, msg)
    \/ \E out \in QueryOutputs : Route("w1", out)
    \/ \E ok \in BOOLEAN : QueryExpensesTool("w1", ok)
    \/ \E ok \in BOOLEAN : GetTotalExpensesTool("w1", ok)
    \/ \E llm \in LlmOutcomes : FinalResponse("w1", llm)
    \/ Record("w1")

SpecQuery == Init /\ [][NextQuery]_vars

\* the period a message names: one of the four keywords in it, today if none
NamesPeriod(msg, period) ==
    \/ period = "today" /\ Contains(Lower(msg), T_today)
    \/ period = "yesterday" /\ Contains(Lower(msg), T_yesterday)
    \/ period = "week" /\ Contains(Lower(msg), T_week)
    \/ period = "month" /\ Contains(Lower(msg), T_month)
    \/ /\ period = "today"
       /\ \A word \in {T_today, T_yesterday, T_week, T_month} : ~Contains(Lower(msg), word)

\* C34: the query handler and the total-for-period handler read the ledger
\* only for the requesting user and only for the time window named by a
\* keyword of the message, today when there is none.
C34_ScopedReads ==
    (/\ Ran("query_expenses_tool") \/ Ran("get_total_expenses_tool")
     /\ R.tool_result[1].read # None)
    => /\ Some(R.tool_result[1].read[1].user_id) = R.user_id
       /\ NamesPeriod(R.user_message, R.tool_result[1].read[1].period)

(***************************************************************************)
(* SpecHook: the webhook on the messages of one user: the agent first,     *)
(* then the legacy logic when the agent gave no answer.                    *)
(***************************************************************************)
HookOutputs ==
    {Output(Some("log_expense_tool"), "log_expense", Some(900), Some(T_popcorn), None, <<>>),
     Output(Some("log_multiple_expenses_tool"), "log_multiple_expenses", None, None, None,
            ExampleTriples),
     Output(Some("greeting_tool"), "greeting", None, None, None, <<>>)}

LegacyLists ==
    {<<>>,
     <<LegacyExpense(Some(900), Some(C_food), T_popcorn)>>,
     <<LegacyExpense(Some(500), Some(C_food), T_popcorn),
       LegacyExpense(Some(200), Some(C_misc), T_empty)>>,
     <<LegacyExpense(Some(500), Some(C_food), T_popcorn),
       LegacyExpense(None, Some(C_misc), T_empty)>>,
     <<LegacyExpense(Some(900), Some(T_empty), T_popcorn)>>}

LegacyResults ==
    {[intent |-> i, expenses |-> l] : i \in {"expense_logging", "query", "unknown"},
                                      l \in LegacyLists}

NextHook ==
    \/ Quiet /\ msgs < MaxHookMsgs /\ hook.seen = msgs /\ Receive("w1", "p1", T_popcorn)
    \/ \E out \in HookOutputs : Route("w1", out)
    \/ RouteRaises("w1")
    \/ LogExpenseTool("w1", "none")
    \/ LogMultipleExpensesTool("w1", 0, "none")
    \/ GreetingTool("w1")
    \/ \E llm \in LlmOutcomes : FinalResponse("w1", llm)
    \/ Record("w1")
    \/ WebhookAgentReply("w1")
    \/ \E out \in LegacyResults, at \in 0..2, fault \in StoreFaults :
          LegacyLogic("w1", out, at, fault)

SpecHook == Init /\ [][NextHook]_vars

\* handle_webhook has answered the message worker w1 holds
Answered == msgs > 0 /\ hook.seen = msgs

\* C35: for one webhook call the ledger writes come from at most one path:
\* when the agent committed an expense for the message, the legacy logic
\* does not process that message as well.
C35_OnePathWrites ==
    (Answered /\ R.created # <<>>) => hook.path = "agent"

\* C40: legacy expense logging is all-or-nothing: when the reply is a
\* clarification request or an error no expense of the message has been
\* committed, and when it is the confirmation all of them have been.
C40_LegacyAllOrNothing ==
    (Answered /\ hook.path = "legacy" /\ hook.expenses # <<>>)
    => /\ hook.status \in {"clarification_needed", "error"} => hook.created = <<>>
       /\ hook.status = "ok" =>
             /\ Len(hook.created) = Len(hook.expenses)
             /\ \A k \in 1..Len(hook.expenses) :
                   hook.created[k].amount = hook.expenses[k].amount[1]

(***************************************************************************)
(* Properties of the single-expense handler's writes (SpecLog)             *)
(***************************************************************************)
\* the slots after the merge: the message's value, the pending one without it
SlotAmount(r) ==
    IF r.pending_expense = None THEN r.amount
    ELSE PreferAmount(r.amount, r.pending_expense[1].amount)

SlotItem(r) ==
    IF r.pending_expense = None THEN r.item
    ELSE PreferText(r.item, r.pending_expense[1].item)

\* C36: the single-expense handler calls create_expense at most once per
\* message, and only when after the merge both amount and item are present
\* and the message is not a short or stop-word message; a result of
\* incomplete, or of error for a missing account, comes with no ledger write.
C36_CommitOnlyWhenComplete ==
    [][\A fault \in StoreFaults :
          LogExpenseTool("w1", fault)
          => LET res == req'["w1"].tool_result[1]
             IN /\ Len(req'["w1"].created) <= 1
                /\ Len(ledger') = Len(ledger) + Len(req'["w1"].created)
                /\ SubSeq(ledger', 1, Len(ledger)) = ledger
                /\ ledger' # ledger =>
                      /\ TruthyAmount(SlotAmount(R))
                      /\ TruthyText(SlotItem(R))
                      /\ ~IsUnclearMessage(R.user_message)
                      /\ R.user_id # None
                /\ (res.status = "incomplete" \/ res.response = "no_account")
                   => ledger' = ledger]_vars

\* a message that is not short completed the pending expense of the message
\* before it: one row was written, by the second message
C36_Witness ==
    /\ Ran("log_expense_tool") /\ HadPending
    /\ ~IsUnclearMessage(R.user_message)
    /\ ~TruthyAmount(R.extracted_data.amount)
    /\ Status = "success"
    /\ Len(R.created) = 1
    /\ Len(ledger) = 1

\* C37: in every reachable state a stored pending expense has at least one of
\* amount and item present; when both are unknown the single-expense handler
\* stores none.
C37_PendingHasASlot ==
    \A phone \in DOMAIN user_contexts :
       LET pe == user_contexts[phone].pending_expense
       IN pe # None => TruthyAmount(pe[1].amount) \/ TruthyText(pe[1].item)

\* a message gave neither amount nor item with nothing pending: the handler
\* asked for both and stored no pending expense
C37_Witness ==
    /\ Ran("log_expense_tool") /\ Status = "incomplete"
    /\ ~HadPending
    /\ ~TruthyAmount(R.extracted_data.amount) /\ ~TruthyText(R.extracted_data.item)
    /\ R.tool_result[1].missing = <<"amount", "item">>
    /\ R.phone \in DOMAIN user_contexts
    /\ user_contexts[R.phone].pending_expense = None

(***************************************************************************)
(* SpecTtl: the slot-filling dialogue of one user with the clock advancing *)
(* between the messages; the sweep runs when something calls it.           *)
(***************************************************************************)
TtlOutputs ==
    {Output(Some("log_expense_tool"), "log_expense", Some(900), None, None, <<>>),
     Output(Some("log_expense_tool"), "log_expense", None, Some(T_popcorn), None, <<>>)}

NextTtl ==
    \/ Quiet /\ msgs < MaxTtlMsgs /\ Receive("w1", "p1", T_popcorn)
    \/ \E out \in TtlOutputs : Route("w1", out)
    \/ LogExpenseTool("w1", "none")
    \/ FinalResponse("w1", "text")
    \/ Record("w1")
    \/ Quiet /\ Tick
    \/ Quiet /\ SweepScan
    \/ \E phone \in Phones : SweepDelete(phone)

SpecTtl == Init /\ [][NextTtl]_vars

\* C38: a pending expense is never merged into a message that arrives more
\* than the TTL after the user's last interaction: such a message finds no
\* pending expense.
C38_PendingShortLived ==
    [][(/\ Receive("w1", "p1", T_popcorn)
        /\ "p1" \in DOMAIN user_contexts
        /\ OlderThanTtl(user_contexts["p1"]))
       => req'["w1"].pending_expense = None]_vars

\* C39: in the multi-expense handler a store failure while one triple is
\* committed moves that triple, and no other complete one, to the failed
\* list: the rows written before it stay, the triples after it are still
\* committed, and the handler returns one success result with both lists.
C39_StoreFailureIsLocal ==
    [][\A at \in 1..Len(ExampleTriples), fault \in {"category", "expense"} :
          (/\ LogMultipleExpensesTool("w1", at, fault)
           /\ at <= Len(R.multiple_expenses)
           /\ HasAmountAndItem(R.multiple_expenses[at]))
          => LET list == R.multiple_expenses
                 res == req'["w1"].tool_result[1]
                 before == IndicesWhere(list, LAMBDA k : HasAmountAndItem(list[k]) /\ k < at)
                 after == IndicesWhere(list, LAMBDA k : HasAmountAndItem(list[k]) /\ k > at)
                 rows == [j \in 1..(Len(ledger') - Len(ledger)) |-> ledger'[Len(ledger) + j]]
             IN /\ SubSeq(ledger', 1, Len(ledger)) = ledger
                /\ [j \in 1..Len(rows) |-> rows[j].note]
                   = [j \in 1..Len(before \o after) |-> list[(before \o after)[j]].item[1]]
                /\ res.status = "success"
                /\ \E j \in 1..Len(res.failed_expenses) : res.failed_expenses[j] = list[at]
                /\ \A j \in 1..Len(res.failed_expenses) :
                      res.failed_expenses[j] = list[at]
                      \/ ~HasAmountAndItem(res.failed_expenses[j])
                /\ [j \in 1..Len(res.logged_expenses) |-> res.logged_expenses[j].item[1]]
                   = [j \in 1..Len(rows) |-> rows[j].note]]_vars

\* the store failed on the first of two complete triples: the second one was
\* committed all the same, and the first one is the only failed triple
C39_Witness ==
    /\ Ran("log_multiple_expenses_tool")
    /\ R.multiple_expenses = <<ExampleTriples[1], ExampleTriples[3]>>
    /\ Status = "success"
    /\ R.tool_result[1].failed_expenses = <<ExampleTriples[1]>>
    /\ Len(R.created) = 1
    /\ R.created[1].amount = ExampleTriples[3].amount[1]

====
